---- MODULE Spec2Model ----
(***************************************************************************)
(* Job orchestrator of the decompiler server (server/routers/decompile.py) *)
(* together with the collaborators it calls, and the services themselves   *)
(* (services/ghidra_service.py, llm_service.py, ai_service.py) called      *)
(* directly.                                                               *)
(*                                                                         *)
(* Representation.  In the orchestrator a function name is a sequence of   *)
(* one-character strings, so that lower-casing and substring tests are     *)
(* computed and not assumed, and a log line is the sequence of the string  *)
(* pieces its f-string concatenates.  In the services a name or a code     *)
(* text is a string, and the str methods are computed on its characters.   *)
(* A dict is the sequence of its (key, value) pairs in insertion order.    *)
(* Python's None is the marker None.                                       *)
(***************************************************************************)
EXTENDS Integers, Sequences, FiniteSets, TLC

(***************************************************************************)
(* Bounds of the model.                                                    *)
(***************************************************************************)
\* Number of job identifiers uuid4 can hand out in one behaviour.
MaxJobs == 2
\* Largest batch size for which the progress formula is tabulated.
MaxBatch == 12

(***************************************************************************)
(* Program constants.                                                      *)
(***************************************************************************)
MAX_FILE_SIZE == 5 * 1024 * 1024
PE_MAGIC == <<"M", "Z">>
ELF_MAGIC == <<"\\x7f", "E", "L", "F">>
DEFAULT_MAX_FUNCTIONS == "10"

None == "None"

\* JobStatus, in the order of declaration.
PENDING == "pending"
UPLOADING == "uploading"
DISASSEMBLING == "disassembling"
ANALYZING == "analyzing"
AI_REFACTORING == "ai_refactoring"
COMPLETED == "completed"
FAILED == "failed"
JobStatus == {PENDING, UPLOADING, DISASSEMBLING, ANALYZING, AI_REFACTORING, COMPLETED, FAILED}

JobIds == 1..MaxJobs
\* Identifiers a client may ask about; 0 is never issued.
QueryIds == JobIds \cup {0}

(***************************************************************************)
(* Python helpers.                                                         *)
(***************************************************************************)
Min(a, b) == IF a <= b THEN a ELSE b
Max(a, b) == IF a >= b THEN a ELSE b

\* seq[:n]
PySliceTo(seq, n) ==
    IF n >= 0 THEN SubSeq(seq, 1, Min(n, Len(seq)))
    ELSE SubSeq(seq, 1, Max(0, Len(seq) + n))

\* str.lower() on the characters the model's names use.
LowerChar(c) ==
    CASE c = "M" -> "m"
      [] c = "W" -> "w"
      [] c = "S" -> "s"
      [] c = "E" -> "e"
      [] OTHER -> c

Lower(name) == [k \in 1..Len(name) |-> LowerChar(name[k])]

\* p in s
Contains(s, p) ==
    \E k \in 0..(Len(s) - Len(p)) : SubSeq(s, k + 1, k + Len(p)) = p

\* dict lookups on a sequence of (key, value) pairs.
Keys(d) == {d[k][1] : k \in 1..Len(d)}
DictGet(d, key) ==
    IF key \in Keys(d)
    THEN d[CHOOSE k \in 1..Len(d) : d[k][1] = key][2]
    ELSE None
\* d[key] = value
DictSet(d, key, value) ==
    IF key \in Keys(d)
    THEN [k \in 1..Len(d) |-> IF d[k][1] = key THEN <<key, value>> ELSE d[k]]
    ELSE Append(d, <<key, value>>)

(***************************************************************************)
(* Inputs.                                                                 *)
(***************************************************************************)
\* An uploaded file: its first bytes and its length.
Contents ==
    { [head |-> <<"M", "Z", "a", "b">>, len |-> 4],
      [head |-> <<"\\x7f", "E", "L", "F">>, len |-> 4],
      [head |-> <<"M", "Z", "a", "b">>, len |-> MAX_FILE_SIZE + 1],
      [head |-> <<"\\x7f", "E", "L">>, len |-> 3] }

FileName == "a.exe"

\* The (gemini_mode, vertex_mode) query parameters of an upload; with both
\* set the code takes every gemini_mode branch, as for <<TRUE, FALSE>>.
Modes == {<<FALSE, FALSE>>, <<TRUE, FALSE>>, <<FALSE, TRUE>>}

\* os.environ["MAX_FUNCTIONS"], or the default when unset.
MaxFunctionsSettings == {DEFAULT_MAX_FUNCTIONS, "0", "1", "abc"}

N_main == <<"m", "a", "i", "n">>
N_WinMain == <<"W", "i", "n", "M", "a", "i", "n">>
N_helper == <<"h", "e", "l", "p", "e", "r">>
N_parse == <<"p", "a", "r", "s", "e">>
N_restart == <<"r", "e", "S", "t", "a", "r", "t">>

\* Mappings the disassembly adapter can return (name -> pseudo-C).
AdapterMappings ==
    { <<>>,
      << <<N_main, "int main(void) { return helper(); }">> >>,
      << <<N_parse, "void parse(char *param_1) { ... }">>,
         <<N_WinMain, "int WinMain(...) { ... }">>,
         <<N_helper, "int helper(void) { ... }">>,
         <<N_restart, "void reStart(void) { ... }">> >> }

AdapterErrors == {"[Errno 13] Permission denied: 'ghidra_projects'"}

\* ai_service imports openai at module level, outside any handler.
ImportErrorMessage == "No module named 'openai'"

VARIABLES
    jobs,       \* decompile.jobs: job_id -> job record
    tasks,      \* routines handed to BackgroundTasks.add_task, not yet started
    proc,       \* started process_binary routines: job_id -> position and locals
    files,      \* files that exist under TEMP_DIR
    environ,    \* the process environment
    running,    \* the routines that hold the event loop: {} or {job_id}
    response,   \* the response of the request the event loop served last
    call,       \* a direct call of a service function: arguments, result
    modules     \* the module-level names of the imported services

vars == <<jobs, tasks, proc, files, environ, running, response, call, modules>>

NoResponse == [op |-> "none"]
\* No service function is being called directly.
NoCall == [fn |-> "none"]
\* The module-level names of the services are not followed.
NoModules == [imported |-> FALSE]

(***************************************************************************)
(* Initial state: module load of routers/decompile.py.                     *)
(***************************************************************************)
Init ==
    /\ jobs = <<>>
    /\ tasks = <<>>
    /\ proc = <<>>
    /\ files = {}
    /\ environ \in [MAX_FUNCTIONS : MaxFunctionsSettings, collaborators_import : BOOLEAN]
    /\ running = {}
    /\ response = NoResponse
    /\ call = NoCall
    /\ modules = NoModules

(***************************************************************************)
(* upload_binary                                                           *)
(***************************************************************************)
validate_binary(content) ==
    \/ PySliceTo(content.head, 2) = PE_MAGIC
    \/ PySliceTo(content.head, 4) = ELF_MAGIC

ModeStr(gemini_mode, vertex_mode) ==
    IF gemini_mode THEN "Gemini"
    ELSE IF vertex_mode THEN "Vertex AI (Cloud GPU)"
    ELSE "LLM4Decompile + Gemini"

FilePath(job_id, filename) ==
    [dir |-> "TEMP_DIR", base |-> ToString(job_id) \o "_" \o filename]

Basename(file_path) == file_path.base

\* Mutant: a new job starts in the enumeration's second status.
M_NewJob(job_id, content, filename, gemini_mode, vertex_mode) ==
    [ status |-> UPLOADING,
      stage |-> "Queued",
      progress |-> 0,
      logs |-> << <<"[*] File received: ", filename>>,
                  <<"[*] Size: ", ToString(content.len), " bytes">>,
                  <<"[*] Mode: ", ModeStr(gemini_mode, vertex_mode)>> >>,
      file_path |-> FilePath(job_id, filename),
      raw_functions |-> <<>>,
      refactored_functions |-> <<>>,
      raw_combined |-> <<>>,
      refactored_combined |-> <<>>,
      error |-> None,
      gemini_mode |-> gemini_mode,
      vertex_mode |-> vertex_mode ]

NewJob(job_id, content, filename, gemini_mode, vertex_mode) ==
    [ status |-> PENDING,
      stage |-> "Queued",
      progress |-> 0,
      logs |-> << <<"[*] File received: ", filename>>,
                  <<"[*] Size: ", ToString(content.len), " bytes">>,
                  <<"[*] Mode: ", ModeStr(gemini_mode, vertex_mode)>> >>,
      file_path |-> FilePath(job_id, filename),
      raw_functions |-> <<>>,
      refactored_functions |-> <<>>,
      raw_combined |-> <<>>,
      refactored_combined |-> <<>>,
      error |-> None,
      gemini_mode |-> gemini_mode,
      vertex_mode |-> vertex_mode ]

NewTask(job_id, filename, gemini_mode, vertex_mode) ==
    [ job_id |-> job_id,
      file_path |-> FilePath(job_id, filename),
      gemini_mode |-> gemini_mode,
      vertex_mode |-> vertex_mode ]

\* uuid.uuid4(): an identifier that has not been issued before.  Identifiers
\* are opaque tokens, so the next unissued one stands for any fresh one.
Uuid4Values == {id \in JobIds \ DOMAIN jobs : \A other \in JobIds \ DOMAIN jobs : id <= other}

upload_binary(content, filename, gemini_mode, vertex_mode) ==
    /\ running = {}
    /\ IF content.len > MAX_FILE_SIZE
       THEN /\ response' = [op |-> "upload", code |-> 413]
            /\ UNCHANGED <<jobs, tasks, files>>
       ELSE IF ~validate_binary(content)
       THEN /\ response' = [op |-> "upload", code |-> 400]
            /\ UNCHANGED <<jobs, tasks, files>>
       ELSE \E job_id \in Uuid4Values :
            /\ files' = files \cup {FilePath(job_id, filename)}
            /\ jobs' = jobs @@ (job_id :> NewJob(job_id, content, filename, gemini_mode, vertex_mode))
            /\ tasks' = Append(tasks, NewTask(job_id, filename, gemini_mode, vertex_mode))
            /\ response' = [op |-> "upload", code |-> 200, job_id |-> job_id]
    /\ UNCHANGED <<proc, environ, running, call, modules>>

(***************************************************************************)
(* get_job_status, get_job_result                                          *)
(***************************************************************************)
\* Mutant: an unknown identifier is answered like a job that is not ready.
M_JobStatusResponse(js, job_id) ==
    IF job_id \notin DOMAIN js
    THEN [op |-> "status", code |-> 400, detail |-> "Job not found"]
    ELSE [ op |-> "status", code |-> 200, job_id |-> job_id,
           status |-> js[job_id].status,
           stage |-> js[job_id].stage,
           progress |-> js[job_id].progress,
           logs |-> js[job_id].logs,
           error |-> js[job_id].error ]

JobStatusResponse(js, job_id) ==
    IF job_id \notin DOMAIN js
    THEN [op |-> "status", code |-> 404, detail |-> "Job not found"]
    ELSE [ op |-> "status", code |-> 200, job_id |-> job_id,
           status |-> js[job_id].status,
           stage |-> js[job_id].stage,
           progress |-> js[job_id].progress,
           logs |-> js[job_id].logs,
           error |-> js[job_id].error ]

FunctionCodes(raw_funcs, refactored_funcs) ==
    [ k \in 1..Len(raw_funcs) |->
        [ name |-> raw_funcs[k][1],
          raw_code |-> raw_funcs[k][2],
          refactored_code |-> DictGet(refactored_funcs, raw_funcs[k][1]) ] ]

\* Mutant: only a completed job is ready, as in get_job_malware_analysis.
M_JobResultResponse(js, job_id) ==
    IF job_id \notin DOMAIN js
    THEN [op |-> "result", code |-> 404, detail |-> "Job not found"]
    ELSE IF js[job_id].status # COMPLETED
    THEN [op |-> "result", code |-> 400,
          detail |-> "Job is still processing. Please wait for completion."]
    ELSE [ op |-> "result", code |-> 200, job_id |-> job_id,
           status |-> js[job_id].status,
           functions |-> FunctionCodes(js[job_id].raw_functions,
                                       js[job_id].refactored_functions),
           raw_combined |-> js[job_id].raw_combined,
           refactored_combined |-> js[job_id].refactored_combined,
           error |-> js[job_id].error ]

JobResultResponse(js, job_id) ==
    IF job_id \notin DOMAIN js
    THEN [op |-> "result", code |-> 404, detail |-> "Job not found"]
    ELSE IF js[job_id].status \notin {COMPLETED, FAILED}
    THEN [op |-> "result", code |-> 400,
          detail |-> "Job is still processing. Please wait for completion."]
    ELSE [ op |-> "result", code |-> 200, job_id |-> job_id,
           status |-> js[job_id].status,
           functions |-> FunctionCodes(js[job_id].raw_functions,
                                       js[job_id].refactored_functions),
           raw_combined |-> js[job_id].raw_combined,
           refactored_combined |-> js[job_id].refactored_combined,
           error |-> js[job_id].error ]

get_job_status(job_id) ==
    /\ running = {}
    /\ response' = JobStatusResponse(jobs, job_id)
    /\ UNCHANGED <<jobs, tasks, proc, files, environ, running, call, modules>>

get_job_result(job_id) ==
    /\ running = {}
    /\ response' = JobResultResponse(jobs, job_id)
    /\ UNCHANGED <<jobs, tasks, proc, files, environ, running, call, modules>>

(***************************************************************************)
(* add_log, update_job_status                                              *)
(***************************************************************************)
\* Mutant: the log keeps only the last message.
M_add_log(js, job_id, message) ==
    IF job_id \in DOMAIN js
    THEN [js EXCEPT ![job_id].logs = <<message>>]
    ELSE js

add_log(js, job_id, message) ==
    IF job_id \in DOMAIN js
    THEN [js EXCEPT ![job_id].logs = Append(@, message)]
    ELSE js

RECURSIVE add_logs(_, _, _)
\* Consecutive add_log calls.
add_logs(js, job_id, messages) ==
    IF messages = <<>> THEN js
    ELSE add_logs(add_log(js, job_id, Head(messages)), job_id, Tail(messages))

\* Mutant: the status, stage and progress of every job are written.
M_update_job_status(js, job_id, status, stage, progress) ==
    [k \in DOMAIN js |-> [js[k] EXCEPT !.status = status,
                                       !.stage = stage,
                                       !.progress = progress]]

update_job_status(js, job_id, status, stage, progress) ==
    IF job_id \in DOMAIN js
    THEN [js EXCEPT ![job_id].status = status,
                    ![job_id].stage = stage,
                    ![job_id].progress = progress]
    ELSE js

(***************************************************************************)
(* process_binary                                                          *)
(***************************************************************************)
\* Positions of a routine.
PcRunning == {"stage1", "decompile", "analyzing", "stage3", "loop", "finally"}
\* "exited": left through the finally block.  "raised": left by an exception
\* that no handler of the routine caught.
PcExited == {"exited", "raised"}

\* Mutant: the handler puts the job back in the queue instead of failing it.
M_ExceptHandler(js, job_id, message) ==
    add_log([js EXCEPT ![job_id].status = PENDING, ![job_id].error = message],
            job_id, <<"[!] Error: ", message>>)

\* The except block: lines 167-170.
ExceptHandler(js, job_id, message) ==
    add_log([js EXCEPT ![job_id].status = FAILED, ![job_id].error = message],
            job_id, <<"[!] Error: ", message>>)

\* The exception a routine has raised, and the call that raised it.
NoException == [at |-> None, message |-> None]

\* Mutant: the except block fails the job without recording the message.
M_Raise(j, js, at, message) ==
    /\ jobs' = add_log([js EXCEPT ![j].status = FAILED], j, <<"[!] Error: ", message>>)
    /\ proc' = [proc EXCEPT ![j].pc = "finally",
                            ![j].exception = [at |-> at, message |-> message]]

\* A statement inside the try block raises after the statements before it
\* have left the job table as js: control passes to the except block.
Raise(j, js, at, message) ==
    /\ jobs' = ExceptHandler(js, j, message)
    /\ proc' = [proc EXCEPT ![j].pc = "finally",
                            ![j].exception = [at |-> at, message |-> message]]

ModeLog(gemini_mode, vertex_mode) ==
    IF gemini_mode THEN <<"[*] Using Gemini Mode (Gemini Pro + Flash)">>
    ELSE IF vertex_mode THEN <<"[*] Using Vertex AI (Cloud GPU) for refactoring">>
    ELSE <<"[*] Using LLM4Decompile + Gemini Flash for refactoring">>

StageName(gemini_mode, vertex_mode) ==
    IF gemini_mode THEN "Gemini refactoring code..."
    ELSE IF vertex_mode THEN "Vertex AI (Cloud GPU) refactoring code..."
    ELSE "AI refactoring code..."

StartLog(gemini_mode, vertex_mode) ==
    IF gemini_mode THEN <<"[*] Starting Gemini Pro refactoring...">>
    ELSE IF vertex_mode THEN <<"[*] Starting Vertex AI inference...">>
    ELSE <<"[*] Starting LLM4Decompile refinement...">>

\* "\n\n".join(f"// Function: {name}\n{code}" ...): the joined items in order.
Combined(functions) ==
    [ k \in 1..Len(functions) |->
        <<"// Function: ">> \o functions[k][1] \o <<"\n", functions[k][2]>> ]

\* The routine is taken from the background tasks and its first two
\* statements, the imports of the collaborators, run: lines 65-68.
\* They stand before the try block.  Every response has been sent by the
\* time the event loop turns to a background task.
StartTask(k) ==
    /\ running = {}
    /\ k \in 1..Len(tasks)
    /\ tasks' = SubSeq(tasks, 1, k - 1) \o SubSeq(tasks, k + 1, Len(tasks))
    /\ LET t == tasks[k]
           locals == [ pc |-> "stage1",
                       file_path |-> t.file_path,
                       gemini_mode |-> t.gemini_mode,
                       vertex_mode |-> t.vertex_mode,
                       functions |-> <<>>,
                       funcs_to_process |-> <<>>,
                       i |-> 0,
                       refactored_functions |-> <<>>,
                       exception |-> NoException ]
       IN IF environ.collaborators_import
          THEN /\ proc' = proc @@ (t.job_id :> locals)
               /\ running' = {t.job_id}
          ELSE /\ proc' = proc @@ (t.job_id :>
                            [locals EXCEPT !.pc = "raised",
                                           !.exception = [at |-> "import",
                                                          message |-> ImportErrorMessage]])
               /\ running' = {}
    /\ response' = NoResponse
    /\ UNCHANGED <<jobs, files, environ, call, modules>>

\* Stage 1: lines 72-85.
Stage1(j) ==
    /\ j \in running
    /\ proc[j].pc = "stage1"
    /\ jobs' = add_logs(
                 update_job_status(jobs, j, DISASSEMBLING, "Disassembling binary...", 10),
                 j,
                 << <<"[*] Starting Ghidra analysis...">>,
                    <<"[*] Loading binary: ", Basename(proc[j].file_path)>>,
                    ModeLog(proc[j].gemini_mode, proc[j].vertex_mode),
                    <<"[*] Initializing decompiler interface...">> >>)
    /\ proc' = [proc EXCEPT ![j].pc = "decompile"]
    /\ UNCHANGED <<tasks, files, environ, running, response, call, modules>>

\* The log lines that follow a successful decompile_binary: lines 88-92.
FoundLogs(functions) ==
    << <<"[+] Found ", ToString(Len(functions)), " functions">> >>
    \o [ k \in 1..Len(PySliceTo(functions, 10)) |-> <<"    - ">> \o functions[k][1] ]
    \o (IF Len(functions) > 10
        THEN << <<"    ... and ", ToString(Len(functions) - 10), " more">> >>
        ELSE <<>>)

\* functions = decompile_binary(file_path, job_id) returns: lines 86-92.
DecompileReturns(j, mapping) ==
    /\ j \in running
    /\ proc[j].pc = "decompile"
    /\ jobs' = add_logs(jobs, j, FoundLogs(mapping))
    /\ proc' = [proc EXCEPT ![j].pc = "analyzing", ![j].functions = mapping]
    /\ UNCHANGED <<tasks, files, environ, running, response, call, modules>>

\* decompile_binary raises (ensure_project_dir, the pyghidra imports and the
\* project clean-up of its finally block are outside its own handlers).
DecompileRaises(j, message) ==
    /\ j \in running
    /\ proc[j].pc = "decompile"
    /\ Raise(j, jobs, "decompile_binary", message)
    /\ UNCHANGED <<tasks, files, environ, running, response, call, modules>>

\* Stage 2: lines 95-105.
Analyzing(j) ==
    /\ j \in running
    /\ proc[j].pc = "analyzing"
    /\ LET js1 == add_logs(
                    update_job_status(jobs, j, ANALYZING, "Analyzing control flow...", 40),
                    j,
                    << <<"[*] Analyzing control flow graphs...">>,
                       <<"[*] Identifying function boundaries...">> >>)
       IN jobs' = [js1 EXCEPT ![j].raw_functions = proc[j].functions,
                              ![j].raw_combined = Combined(proc[j].functions)]
    /\ proc' = [proc EXCEPT ![j].pc = "stage3"]
    /\ UNCHANGED <<tasks, files, environ, running, response, call, modules>>

\* int(os.environ.get("MAX_FUNCTIONS", "10")): the settings int() accepts.
IntLiterals == {DEFAULT_MAX_FUNCTIONS, "0", "1", "2", "-1", "5", "50", "60"}
IntOf(text) ==
    CASE text = "10" -> 10
      [] text = "0" -> 0
      [] text = "1" -> 1
      [] text = "2" -> 2
      [] text = "-1" -> 0 - 1
      [] text = "5" -> 5
      [] text = "50" -> 50
      [] text = "60" -> 60

ValueErrorMessage(text) == "invalid literal for int() with base 10: '" \o text \o "'"

\* any(p in name.lower() for p in ["entry", "main", "start"])
IsPriority(name) ==
    \E p \in { <<"e", "n", "t", "r", "y">>, <<"m", "a", "i", "n">>,
               <<"s", "t", "a", "r", "t">> } : Contains(Lower(name), p)

\* [x for x in functions if pred(x)], in order.
RECURSIVE Filter(_, _)
Filter(functions, keep) ==
    IF functions = <<>> THEN <<>>
    ELSE IF keep = IsPriority(Head(functions)[1])
         THEN <<Head(functions)>> \o Filter(Tail(functions), keep)
         ELSE Filter(Tail(functions), keep)

\* sorted_funcs after sorted_funcs.extend(other_funcs): lines 128-135.
SortedFuncs(functions) == Filter(functions, TRUE) \o Filter(functions, FALSE)

\* funcs_to_process: line 138.
FuncsToProcess(functions, max_functions) == PySliceTo(SortedFuncs(functions), max_functions)

SkipLogs(functions, funcs_to_process) ==
    LET skipped == Len(functions) - Len(funcs_to_process)
    IN IF skipped > 0
       THEN << <<"[*] Processing ", ToString(Len(funcs_to_process)),
                 " functions (skipping ", ToString(skipped), " for speed)">> >>
       ELSE <<>>

\* Stage 3 up to the loop: lines 108-144.
Stage3(j) ==
    /\ j \in running
    /\ proc[j].pc = "stage3"
    /\ LET js1 == add_log(
                    update_job_status(jobs, j, AI_REFACTORING,
                                      StageName(proc[j].gemini_mode, proc[j].vertex_mode), 60),
                    j, StartLog(proc[j].gemini_mode, proc[j].vertex_mode))
           setting == environ.MAX_FUNCTIONS
       IN IF setting \notin IntLiterals
          THEN Raise(j, js1, "int", ValueErrorMessage(setting))
          ELSE LET todo == FuncsToProcess(proc[j].functions, IntOf(setting))
               IN /\ jobs' = add_logs(js1, j, SkipLogs(proc[j].functions, todo))
                  /\ proc' = [proc EXCEPT ![j].pc = "loop",
                                          ![j].funcs_to_process = todo,
                                          ![j].i = 0,
                                          ![j].refactored_functions = <<>>]
    /\ UNCHANGED <<tasks, files, environ, running, response, call, modules>>

\* Mutant: the index is not divided by the batch size.
M_ProgressAt(i, total_functions) == 60 + (i * 35)

\* 60 + int((i / total_functions) * 35).  The double-precision quotient and
\* product truncate to the integer quotient for every total below 60.
ProgressAt(i, total_functions) == 60 + ((i * 35) \div total_functions)

\* Parameters of ai_service.refactor_code.
RefactorCodeParams == {"function_name", "raw_code", "context_functions"}
\* Keyword arguments of the call in process_binary: line 150.
RefactorCallKeywords == <<"gemini_mode", "vertex_mode">>

\* Python binds the arguments when the call is evaluated; a keyword that names
\* no parameter raises TypeError before the coroutine exists.
UnexpectedKeywords ==
    SelectSeq(RefactorCallKeywords, LAMBDA kw : kw \notin RefactorCodeParams)
RefactorCallBinds == UnexpectedKeywords = <<>>
TypeErrorMessage ==
    "refactor_code() got an unexpected keyword argument '" \o Head(UnexpectedKeywords) \o "'"

\* Texts refactor_code can return for one function: the raw text carried
\* through both stages, or a rewritten text.
RefactorCodeResults(function_name, raw_code) ==
    {raw_code, "/* refactored */ " \o raw_code}

\* Mutant: the refined map of the job record is filled in during the loop,
\* with the raw code of the function before its call.
M_RefactorNext(j) ==
    /\ j \in running
    /\ proc[j].pc = "loop"
    /\ proc[j].i < Len(proc[j].funcs_to_process)
    /\ LET func_name == proc[j].funcs_to_process[proc[j].i + 1][1]
           func_code == proc[j].funcs_to_process[proc[j].i + 1][2]
           progress == ProgressAt(proc[j].i, Len(proc[j].funcs_to_process))
           js1 == update_job_status(
                    add_log(jobs, j, <<"[*] Processing function: ">> \o func_name),
                    j, AI_REFACTORING,
                    <<"Refactoring ">> \o func_name \o <<"...">>, progress)
           js2 == [js1 EXCEPT ![j].refactored_functions = DictSet(@, func_name, func_code)]
       IN IF RefactorCallBinds
          THEN \E refactored \in RefactorCodeResults(func_name, func_code) :
               /\ jobs' = add_log(js2, j, <<"[+] Completed: ">> \o func_name)
               /\ proc' = [proc EXCEPT
                    ![j].refactored_functions = DictSet(@, func_name, refactored),
                    ![j].i = @ + 1]
          ELSE Raise(j, js2, "refactor_code", TypeErrorMessage)
    /\ UNCHANGED <<tasks, files, environ, running, response, call, modules>>

\* One iteration of the loop: lines 145-152.
RefactorNext(j) ==
    /\ j \in running
    /\ proc[j].pc = "loop"
    /\ proc[j].i < Len(proc[j].funcs_to_process)
    /\ LET func_name == proc[j].funcs_to_process[proc[j].i + 1][1]
           func_code == proc[j].funcs_to_process[proc[j].i + 1][2]
           progress == ProgressAt(proc[j].i, Len(proc[j].funcs_to_process))
           js1 == update_job_status(
                    add_log(jobs, j, <<"[*] Processing function: ">> \o func_name),
                    j, AI_REFACTORING,
                    <<"Refactoring ">> \o func_name \o <<"...">>, progress)
       IN IF RefactorCallBinds
          THEN \E refactored \in RefactorCodeResults(func_name, func_code) :
               /\ jobs' = add_log(js1, j, <<"[+] Completed: ">> \o func_name)
               /\ proc' = [proc EXCEPT
                    ![j].refactored_functions = DictSet(@, func_name, refactored),
                    ![j].i = @ + 1]
          ELSE Raise(j, js1, "refactor_code", TypeErrorMessage)
    /\ UNCHANGED <<tasks, files, environ, running, response, call, modules>>

\* Mutant: a job in which no function was found ends failed.
M_Complete(j) ==
    /\ j \in running
    /\ proc[j].pc = "loop"
    /\ proc[j].i = Len(proc[j].funcs_to_process)
    /\ LET js1 == [jobs EXCEPT
                    ![j].refactored_functions = proc[j].refactored_functions,
                    ![j].refactored_combined = Combined(proc[j].refactored_functions)]
           status == IF proc[j].functions = <<>> THEN FAILED ELSE COMPLETED
       IN jobs' = add_logs(
                    update_job_status(js1, j, status, "Completed!", 100),
                    j,
                    << <<"[+] Decompilation and refactoring complete!">>,
                       <<"[+] Processed ", ToString(Len(proc[j].functions)),
                         " functions successfully">> >>)
    /\ proc' = [proc EXCEPT ![j].pc = "finally"]
    /\ UNCHANGED <<tasks, files, environ, running, response, call, modules>>

\* After the loop: lines 155-165.
Complete(j) ==
    /\ j \in running
    /\ proc[j].pc = "loop"
    /\ proc[j].i = Len(proc[j].funcs_to_process)
    /\ LET js1 == [jobs EXCEPT
                    ![j].refactored_functions = proc[j].refactored_functions,
                    ![j].refactored_combined = Combined(proc[j].refactored_functions)]
       IN jobs' = add_logs(
                    update_job_status(js1, j, COMPLETED, "Completed!", 100),
                    j,
                    << <<"[+] Decompilation and refactoring complete!">>,
                       <<"[+] Processed ", ToString(Len(proc[j].functions)),
                         " functions successfully">> >>)
    /\ proc' = [proc EXCEPT ![j].pc = "finally"]
    /\ UNCHANGED <<tasks, files, environ, running, response, call, modules>>

\* The finally block: lines 171-174.  The routine ends and the event loop is free.
Finally(j) ==
    /\ j \in running
    /\ proc[j].pc = "finally"
    /\ files' = files \ {proc[j].file_path}
    /\ proc' = [proc EXCEPT ![j].pc = "exited"]
    /\ running' = {}
    /\ UNCHANGED <<jobs, tasks, environ, response, call, modules>>

(***************************************************************************)
(* Specification.                                                          *)
(***************************************************************************)
Routine(j) ==
    \/ Stage1(j)
    \/ \E mapping \in AdapterMappings : DecompileReturns(j, mapping)
    \/ \E message \in AdapterErrors : DecompileRaises(j, message)
    \/ Analyzing(j)
    \/ Stage3(j)
    \/ RefactorNext(j)
    \/ Complete(j)
    \/ Finally(j)

Next ==
    \/ \E content \in Contents, mode \in Modes :
         upload_binary(content, FileName, mode[1], mode[2])
    \/ \E job_id \in QueryIds : get_job_status(job_id)
    \/ \E job_id \in QueryIds : get_job_result(job_id)
    \/ \E k \in 1..MaxJobs : StartTask(k)
    \/ \E j \in JobIds : Routine(j)

Spec == Init /\ [][Next]_vars

\* The event loop runs a scheduled routine, and a routine it has started
\* runs on to its end: every call it makes returns or raises.
FairSpec ==
    /\ Spec
    /\ WF_vars(\E k \in 1..MaxJobs : StartTask(k))
    /\ \A j \in JobIds : WF_vars(Routine(j))

TypeOK ==
    /\ DOMAIN jobs \subseteq JobIds
    /\ DOMAIN proc \subseteq DOMAIN jobs
    /\ running \subseteq DOMAIN proc
    /\ Cardinality(running) <= 1
    /\ \A j \in DOMAIN jobs : jobs[j].status \in JobStatus
    /\ \A j \in DOMAIN proc : proc[j].pc \in PcRunning \cup PcExited

(***************************************************************************)
(* Python str.  The texts the services work on (function names,            *)
(* decompiled code, generated code) are strings; the str methods the       *)
(* services call are computed character by character.  Positions are       *)
(* 1-based, and 0 stands for "not found".                                  *)
(***************************************************************************)
ASCII_UPPERCASE == "ABCDEFGHIJKLMNOPQRSTUVWXYZ"
ASCII_LOWERCASE == "abcdefghijklmnopqrstuvwxyz"
\* The characters str.strip() removes and \s matches.
WHITESPACE == {" ", "\t", "\n", "\r"}

CharsOf(s) == {SubSeq(s, k, k) : k \in 1..Len(s)}

\* s[i:] with i a 1-based position
From(s, i) == SubSeq(s, i, Len(s))

\* s.find(p, start): the least position >= start where p occurs, else 0
find(s, p, start) ==
    LET hits == {k \in start..(Len(s) - Len(p) + 1) : SubSeq(s, k, k + Len(p) - 1) = p}
    IN  IF hits = {} THEN 0 ELSE CHOOSE k \in hits : \A j \in hits : k <= j

\* p in s
In(p, s) == find(s, p, 1) # 0

startswith(s, p) == Len(p) <= Len(s) /\ SubSeq(s, 1, Len(p)) = p
endswith(s, p) == Len(p) <= Len(s) /\ SubSeq(s, Len(s) - Len(p) + 1, Len(s)) = p

\* s.count(p): non-overlapping occurrences, left to right
RECURSIVE count(_, _)
count(s, p) ==
    LET k == find(s, p, 1)
    IN  IF k = 0 THEN 0 ELSE 1 + count(From(s, k + Len(p)), p)

lower_char(c) ==
    IF c \in CharsOf(ASCII_UPPERCASE)
    THEN LET k == CHOOSE k \in 1..26 : SubSeq(ASCII_UPPERCASE, k, k) = c
         IN  SubSeq(ASCII_LOWERCASE, k, k)
    ELSE c

\* s.lower(), computed on the two halves of s
RECURSIVE lower(_)
lower(s) ==
    IF Len(s) = 0 THEN ""
    ELSE IF Len(s) = 1 THEN lower_char(s)
    ELSE lower(SubSeq(s, 1, Len(s) \div 2)) \o lower(From(s, Len(s) \div 2 + 1))

RECURSIVE lstrip(_)
lstrip(s) == IF s # "" /\ Head(s) \in WHITESPACE THEN lstrip(Tail(s)) ELSE s

RECURSIVE rstrip(_)
rstrip(s) ==
    IF s # "" /\ SubSeq(s, Len(s), Len(s)) \in WHITESPACE
    THEN rstrip(SubSeq(s, 1, Len(s) - 1))
    ELSE s

\* s.strip()
strip(s) == lstrip(rstrip(s))

\* s.split(sep): the pieces between the occurrences of sep, at least one
RECURSIVE split(_, _)
split(s, sep) ==
    LET k == find(s, sep, 1)
    IN  IF k = 0 THEN <<s>>
        ELSE <<SubSeq(s, 1, k - 1)>> \o split(From(s, k + Len(sep)), sep)

\* sep.join(pieces)
RECURSIVE join(_, _)
join(sep, pieces) ==
    IF pieces = <<>> THEN ""
    ELSE IF Len(pieces) = 1 THEN pieces[1]
    ELSE pieces[1] \o sep \o join(sep, Tail(pieces))

\* the characters \w matches in the texts of the model
WORD_CHARS == CharsOf(ASCII_UPPERCASE) \cup CharsOf(ASCII_LOWERCASE) \cup CharsOf("0123456789") \cup {"_"}

\* the length of the longest prefix of s made of characters of class
RECURSIVE span(_, _)
span(s, class) ==
    IF s # "" /\ Head(s) \in class THEN 1 + span(Tail(s), class) ELSE 0

\* s.replace(old, new): every occurrence, left to right
RECURSIVE replace(_, _, _)
replace(s, old, new) ==
    LET k == find(s, old, 1)
    IN  IF k = 0 THEN s
        ELSE SubSeq(s, 1, k - 1) \o new \o replace(From(s, k + Len(old)), old, new)

\* the concatenation of piece[a], ..., piece[b], computed by halves
RECURSIVE concat(_, _, _)
concat(piece, a, b) ==
    IF a > b THEN ""
    ELSE IF a = b THEN piece[a]
    ELSE concat(piece, a, (a + b) \div 2) \o concat(piece, (a + b) \div 2 + 1, b)

(***************************************************************************)
(* services/ghidra_service.py: the function classifier.                    *)
(*                                                                         *)
(* A Ghidra function is a record: its name, isExternal(), isThunk() and    *)
(* getBody(), the latter a record telling whether a body exists and what   *)
(* its getNumAddresses() is.                                               *)
(***************************************************************************)
LIBRARY_FUNCTIONS == {
    "malloc", "free", "calloc", "realloc", "printf", "fprintf", "sprintf",
    "snprintf", "vprintf", "vfprintf", "scanf", "fscanf", "sscanf", "fopen",
    "fclose", "fread", "fwrite", "fseek", "ftell", "fflush", "fgets",
    "fputs", "fgetc", "fputc", "getc", "putc", "getchar", "putchar",
    "strlen", "strcpy", "strncpy", "strcat", "strncat", "strcmp", "strncmp",
    "strchr", "strrchr", "strstr", "strtok", "strdup", "memcpy", "memmove",
    "memset", "memcmp", "memchr", "atoi", "atol", "atof", "strtol",
    "strtoul", "strtod", "abs", "labs", "rand", "srand", "exit", "abort",
    "atexit", "_exit", "isalpha", "isdigit", "isalnum", "isspace",
    "isupper", "islower", "toupper", "tolower", "time", "clock", "difftime",
    "mktime", "localtime", "gmtime", "qsort", "bsearch", "GetLastError",
    "SetLastError", "GetModuleHandle", "GetProcAddress", "LoadLibrary",
    "FreeLibrary", "GetModuleFileName", "CreateFile", "ReadFile",
    "WriteFile", "CloseHandle", "VirtualAlloc", "VirtualFree",
    "VirtualProtect", "HeapAlloc", "HeapFree", "HeapReAlloc",
    "GetProcessHeap", "GetCurrentProcess", "GetCurrentThread",
    "ExitProcess", "TerminateProcess", "MessageBox", "MessageBoxA",
    "MessageBoxW", "__security_check_cookie", "__security_init_cookie",
    "__GSHandlerCheck", "__CxxFrameHandler3", "__CxxFrameHandler4",
    "_initterm", "_initterm_e", "__acrt_iob_func", "_cexit", "_c_exit",
    "__p___argc", "__p___argv", "_start", "__libc_start_main",
    "__gmon_start__", "__cxa_atexit", "__cxa_finalize", "_fini", "_init",
    "WinMainCRTStartup", "mainCRTStartup", "wmainCRTStartup",
    "wWinMainCRTStartup", "__tmainCRTStartup", "__wgetmainargs",
    "__getmainargs", "__main", "__do_global_dtors", "__do_global_ctors",
    "__gcc_register_frame", "__gcc_deregister_frame",
    "mark_section_writable", "restore_modified_sections",
    "mingw_set_invalid_parameter_handler",
    "mingw_get_invalid_parameter_handler", "_matherr", "mingw_matherr",
    "__mingw_raise_matherr", "__mingw_GetSectionForAddress",
    "__mingw_GetSectionCount", "_pei386_runtime_relocator",
    "__mingw_init_ehandler", "_gnu_exception_handler",
    "__mingwInitEhandler", "_Unwind_Resume", "_Unwind_RaiseException",
    "_Unwind_GetIP", "__gxx_personality_v0", "__cxa_begin_catch",
    "__cxa_end_catch", "__cxa_throw", "__cxa_rethrow",
    "__cxa_allocate_exception", "empty", "size", "length", "capacity",
    "begin", "end", "cbegin", "cend", "rbegin", "rend", "front", "back",
    "data", "clear", "erase", "insert", "push_back", "pop_back",
    "push_front", "pop_front", "resize", "reserve", "swap", "assign", "at",
    "get", "set", "find", "count", "contains", "eq", "ne", "lt", "gt", "le",
    "ge", "equal", "not_equal", "less", "greater", "less_equal",
    "greater_equal", "next", "prev", "advance", "distance", "reset",
    "release", "get_deleter", "use_count", "unique", "expired", "lock",
    "type", "value_type", "pointer", "reference", "iterator",
    "const_iterator", "allocate", "deallocate", "construct", "destroy",
    "get_allocator", "allocator", "rebind", "max_size", "c_str", "substr",
    "append", "replace", "compare", "rfind", "find_first_of",
    "find_last_of", "find_first_not_of", "find_last_not_of", "npos", "copy",
    "move", "forward", "move_if_noexcept", "copy_n", "copy_backward",
    "move_backward", "emplace", "emplace_back", "emplace_front",
    "emplace_hint", "shrink_to_fit", "bucket_count", "load_factor",
    "max_load_factor", "hash_function", "key_eq", "key_comp", "value_comp" }
\* {f.lower() for f in LIBRARY_FUNCTIONS}
LIBRARY_FUNCTIONS_lower == {lower(f) : f \in LIBRARY_FUNCTIONS}

priority_names == {
    "main", "_main", "wmain", "_wmain", "winmain", "_winmain", "wwinmain" }
runtime_prefixes == {
    "__scrt_", "__acrt_", "__vcrt_", "__std_", "__crt_", "_CRT_", "_RTC_",
    "__security_", "__report_", "__raise_", "FID_conflict:", "_guard_",
    "__GSHandler", "__CxxFrame", "__mingw_", "_mingw_", "mingw_", "__gnu_",
    "__do_global_", "__gcc_", "_Unwind_", "__gxx_", "__cxa_", "_pei386_",
    "__register_frame", "__deregister_frame" }
crt_patterns == {
    "crtStartup", "CRTStartup", "mainCRT", "WinMainCRT", "tmainCRT",
    "wmainCRT", "dllmain", "DllMain" }
stl_patterns == {
    "std::", "operator", "basic_string", "basic_ostream", "basic_istream",
    "basic_ios", "basic_streambuf", "basic_filebuf", "basic_fstream",
    "allocator<", "vector<", "list<", "map<", "set<", "unordered_",
    "unique_ptr<", "shared_ptr<", "weak_ptr<", "make_unique", "make_shared",
    "pair<", "tuple<", "optional<", "variant<", "any<", "iterator<",
    "reverse_iterator", "back_insert_iterator", "char_traits<", "collate<",
    "ctype<", "codecvt<", "numpunct<", "moneypunct<", "time_get<",
    "time_put<", "messages<", "money_get<", "money_put<", "num_get<",
    "num_put<", "_Tidy_guard<", "_Alloc_", "_String_", "_Vector_", "_Tree_",
    "locale::", "facet::", "ios_base::", "streambuf::",
    "_Narrow_char_traits", "_Char_traits_base", "_String_alloc",
    "_Compressed_pair", "_Vector_alloc", "_List_alloc", "__gnu_cxx::",
    "__gnu_cxx", "char_traits", "__ptr_traits", "__alloc_traits",
    "__iterator_traits", "pointer_to", "addressof", "construct_at",
    "destroy_at", "allocator_traits", "uses_allocator" }
keep_names == {
    "_main", "_winmain", "_start", "_wmain" }
\* "For named functions, require at least 10 bytes"
NAMED_MIN_SIZE == 10

\* The rules between the always-keep test and the size rule: TRUE when one
\* of them returns False.
RejectedByNameOrFlags(func, func_name) ==
    \/ func.isExternal \/ func.isThunk
    \/ /\ lower(environ.SKIP_FUN_FUNCTIONS) \in {"true", "1", "yes"}
       /\ startswith(func_name, "FUN_")
    \/ lower(func_name) \in LIBRARY_FUNCTIONS_lower
    \/ \E prefix \in runtime_prefixes : startswith(func_name, prefix)
    \/ \E pattern \in crt_patterns : In(lower(pattern), lower(func_name))
    \/ startswith(func_name, "__")
    \/ \E pattern \in stl_patterns : In(pattern, func_name)
    \/ startswith(strip(func_name), "std::")
    \/ startswith(func_name, "~") \/ endswith(func_name, "::~")
    \/ Len(func_name) <= 2 /\ lower(func_name) \notin {"main"}
    \/ startswith(func_name, "_") /\ lower(func_name) \notin keep_names

\* The size rule without its second branch.
M_RejectedBySize(func, func_name) ==
    LET num_addrs == func.getBody.numAddresses
        min_fun_size == IntOf(environ.MIN_FUNCTION_SIZE)
    IN  startswith(func_name, "FUN_") /\ num_addrs < min_fun_size

\* The size rule, for a function that has a body: TRUE when it returns False.
RejectedBySize(func, func_name) ==
    LET num_addrs == func.getBody.numAddresses
        min_fun_size == IntOf(environ.MIN_FUNCTION_SIZE)
    IN  IF startswith(func_name, "FUN_") /\ num_addrs < min_fun_size
        THEN TRUE
        ELSE num_addrs < NAMED_MIN_SIZE

\* The always-keep test without the lower-casing.
M_IsPriorityName(func_name) == func_name \in priority_names

\* The always-keep test.
IsPriorityName(func_name) == lower(func_name) \in priority_names

\* is_user_function raises instead of returning: the ValueError of
\* int(os.environ.get("MIN_FUNCTION_SIZE", "50")).
is_user_function_raises(func, func_name) ==
    /\ ~IsPriorityName(func_name)
    /\ ~RejectedByNameOrFlags(func, func_name)
    /\ func.getBody.exists
    /\ environ.MIN_FUNCTION_SIZE \notin IntLiterals

\* The value is_user_function returns, when it returns.
is_user_function(func, func_name) ==
    IF IsPriorityName(func_name) THEN TRUE
    ELSE IF RejectedByNameOrFlags(func, func_name) THEN FALSE
    ELSE IF func.getBody.exists THEN ~RejectedBySize(func, func_name)
    ELSE TRUE

stdlib_patterns == {
    "std::", "__gnu_cxx::", "operator new", "operator delete",
    "__ptr_traits", "__alloc_traits", "pointer_to(", "addressof(",
    "::allocator", "basic_string<", "char_traits<" }
_is_stdlib_code(c_code) ==
    \E pattern \in stdlib_patterns : In(lower(pattern), lower(c_code))

\* re.sub(r'/\*.*?\*/', '', c_code, flags=re.DOTALL)
RECURSIVE remove_block_comments(_)
remove_block_comments(s) ==
    LET a == find(s, "/*", 1)
        b == find(s, "*/", a + 2)
    IN  IF a = 0 \/ b = 0 THEN s
        ELSE SubSeq(s, 1, a - 1) \o remove_block_comments(From(s, b + 2))

\* re.sub(r'//.*', '', code_stripped)
RECURSIVE remove_line_comments(_)
remove_line_comments(s) ==
    LET a == find(s, "//", 1)
        nl == find(s, "\n", a)
    IN  IF a = 0 THEN s
        ELSE IF nl = 0 THEN SubSeq(s, 1, a - 1)
        ELSE SubSeq(s, 1, a - 1) \o remove_line_comments(From(s, nl))

\* [l.strip() for l in lines if l.strip()]
RECURSIVE StrippedNonBlank(_)
StrippedNonBlank(lines) ==
    IF lines = <<>> THEN <<>>
    ELSE IF strip(Head(lines)) = "" THEN StrippedNonBlank(Tail(lines))
    ELSE <<strip(Head(lines))>> \o StrippedNonBlank(Tail(lines))

\* The loop of _is_trivial_function that collects the lines of the body.
RECURSIVE BodyLines(_, _, _, _)
BodyLines(lines, body_started, brace_count, body_lines) ==
    IF lines = <<>> THEN body_lines
    ELSE
      LET line == Head(lines)
          counted == brace_count + count(line, "{") - count(line, "}")
          after_brace == strip(From(line, find(line, "{", 1) + 1))
      IN  IF In("{", line)
          THEN BodyLines(Tail(lines), TRUE, counted,
                         IF after_brace # "" /\ after_brace # "}"
                         THEN Append(body_lines, after_brace) ELSE body_lines)
          ELSE IF body_started
          THEN BodyLines(Tail(lines), TRUE, counted,
                         IF counted > 0 \/ (counted = 0 /\ line # "}")
                         THEN Append(body_lines, line) ELSE body_lines)
          ELSE BodyLines(Tail(lines), FALSE, brace_count, body_lines)

\* re.match(r'^return\s+\w+\s*;?$', line)
MatchesReturnWord(line) ==
    /\ startswith(line, "return")
    /\ LET r1 == From(line, 7)
           s1 == span(r1, WHITESPACE)
           r2 == From(r1, s1 + 1)
           w == span(r2, WORD_CHARS)
           r3 == From(r2, w + 1)
           r4 == From(r3, span(r3, WHITESPACE) + 1)
       IN  s1 >= 1 /\ w >= 1 /\ r4 \in {"", ";"}

_is_trivial_function(c_code) ==
    LET code_stripped == strip(remove_line_comments(remove_block_comments(c_code)))
        lines == StrippedNonBlank(split(code_stripped, "\n"))
        body_lines == BodyLines(lines, FALSE, 0, <<>>)
        meaningful_lines == SelectSeq(body_lines, LAMBDA l : l # "" /\ l # "}" /\ l # "{")
    IN  IF Len(meaningful_lines) = 0 THEN TRUE
        ELSE IF Len(meaningful_lines) = 1
        THEN MatchesReturnWord(lower(meaningful_lines[1]))
        ELSE FALSE

\* _mock_decompile: the sample functions returned without Ghidra.
_mock_decompile(file_path) ==
    LET filename == Basename(file_path)
    IN
    << <<"main",
      "int main(int argc, char **argv)\n"
      \o "{\n"
      \o "    int iVar1;\n"
      \o "    undefined8 uVar2;\n"
      \o "    char *pcVar3;\n"
      \o "    long lVar4;\n"
      \o "    \n"
      \o "    // Binary: " \o filename \o "\n"
      \o "    iVar1 = 0;\n"
      \o "    if (argc < 2) {\n"
      \o "        pcVar3 = \"Usage: %s <input>\\n\";\n"
      \o "        goto LAB_00401050;\n"
      \o "    }\n"
      \o "    \n"
      \o "    uVar2 = process_input(argv[1]);\n"
      \o "    if ((int)uVar2 == 0) {\n"
      \o "        pcVar3 = \"Error processing input\\n\";\n"
      \o "LAB_00401050:\n"
      \o "        printf(pcVar3, *argv);\n"
      \o "        iVar1 = 1;\n"
      \o "    }\n"
      \o "    else {\n"
      \o "        lVar4 = calculate_result((long)uVar2);\n"
      \o "        printf(\"Result: %ld\\n\", lVar4);\n"
      \o "    }\n"
      \o "    \n"
      \o "    return iVar1;\n"
      \o "}">>,
       <<"process_input",
      "undefined8 process_input(char *param_1)\n"
      \o "{{\n"
      \o "    size_t sVar1;\n"
      \o "    void *pvVar2;\n"
      \o "    undefined8 uVar3;\n"
      \o "    \n"
      \o "    sVar1 = strlen(param_1);\n"
      \o "    if (sVar1 == 0) {{\n"
      \o "        uVar3 = 0;\n"
      \o "    }}\n"
      \o "    else {{\n"
      \o "        pvVar2 = malloc(sVar1 + 1);\n"
      \o "        if (pvVar2 == (void *)0x0) {{\n"
      \o "            uVar3 = 0;\n"
      \o "        }}\n"
      \o "        else {{\n"
      \o "            strcpy((char *)pvVar2, param_1);\n"
      \o "            uVar3 = (undefined8)pvVar2;\n"
      \o "        }}\n"
      \o "    }}\n"
      \o "    return uVar3;\n"
      \o "}}">>,
       <<"calculate_result",
      "long calculate_result(long param_1)\n"
      \o "{{\n"
      \o "    long lVar1;\n"
      \o "    int iVar2;\n"
      \o "    long lVar3;\n"
      \o "    \n"
      \o "    lVar1 = 0;\n"
      \o "    if (param_1 != 0) {{\n"
      \o "        lVar3 = 0;\n"
      \o "        do {{\n"
      \o "            iVar2 = *(int *)(param_1 + lVar3 * 4);\n"
      \o "            lVar1 = lVar1 + (long)iVar2;\n"
      \o "            lVar3 = lVar3 + 1;\n"
      \o "        }} while (lVar3 < 10);\n"
      \o "    }}\n"
      \o "    return lVar1;\n"
      \o "}}">> >>

\* What Ghidra does in one call of decompile_binary: not configured, fails
\* to start, fails while loading or analysing, or runs.
GhidraRuns == {"unavailable", "start_fails", "load_fails", "ok"}

\* The first loop of decompile_binary: the positions of the program's
\* functions that is_user_function keeps.
UserFunctions(program) ==
    SelectSeq([k \in 1..Len(program) |-> k],
              LAMBDA k : is_user_function(program[k], program[k].name))

\* decompiled[k] is what decompileFunction gives for program[k]:
\* decompileCompleted(), whether getDecompiledFunction() is there, getC().
IsDecompiled(result) ==
    result.decompileCompleted /\ result.decomp_func /\ result.c_code # ""

\* The body checks that follow the decompilation of a retained function.
PostFilterSkips(c_code) ==
    _is_stdlib_code(c_code) \/ _is_trivial_function(c_code)

\* The second loop: decompile each retained function and store its code.
RECURSIVE DecompileUserFunctions(_, _, _, _)
DecompileUserFunctions(program, user_functions, decompiled, functions) ==
    IF user_functions = <<>> THEN functions
    ELSE
      LET k == Head(user_functions)
          func_name == program[k].name
          c_code == decompiled[k].c_code
      IN  DecompileUserFunctions(program, Tail(user_functions), decompiled,
            IF IsDecompiled(decompiled[k]) /\ ~PostFilterSkips(c_code)
            THEN DictSet(functions, func_name, c_code)
            ELSE functions)

decompile_binary(file_path, program, ghidra, decompiled) ==
    IF ghidra # "ok" THEN _mock_decompile(file_path)
    ELSE IF \E k \in 1..Len(program) :
              is_user_function_raises(program[k], program[k].name)
    THEN _mock_decompile(file_path)
    ELSE DecompileUserFunctions(program, UserFunctions(program), decompiled, <<>>)

(***************************************************************************)
(* Direct calls of the classifier: is_user_function on one function, and   *)
(* decompile_binary on a program of one or two functions.                  *)
(***************************************************************************)
\* The functions is_user_function is called on: names that equal an
\* always-keep name up to case and names that do not, every pair of flags,
\* no body or a body of 0, 9, 10, 49 or 50 addresses.
Funcs ==
    [name : {"main", "MAIN", "_main", "wmain", "_wmain", "WinMain", "_WinMain",
             "wWinMain",
             "_start", "helper", "process_input", "FUN_00401000", "printf",
             "__scrt_common_main", "mainCRTStartup", "std::terminate",
             "~Widget", "ab", "_helper"},
     isExternal : BOOLEAN, isThunk : BOOLEAN,
     getBody : {[exists |-> FALSE, numAddresses |-> 0]}
               \cup {[exists |-> TRUE, numAddresses |-> n] : n \in {0, 9, 10, 49, 50}}]

\* os.environ as the classifier reads it; an unset variable has its default.
ClassifierEnvirons ==
    [SKIP_FUN_FUNCTIONS : {"", "TRUE", "no"},
     MIN_FUNCTION_SIZE : {"50", "5", "60", "abc"}]

\* Decompiled code: a body that only returns a value, one that uses the
\* C++ library, a plain one, one whose only statement follows comments, and
\* one written on a single line.
CCodes ==
    {"int main(void)\n{\n  return 0;\n}\n",
     "int main(void)\n{\n  std::cout << 1;\n  run();\n  return 0;\n}\n",
     "void helper(int a)\n{\n  g(a);\n  h(a);\n}\n",
     "/* WARNING: x */\nint f(void)\n{\n  // result\n  return x;\n}\n",
     "int main(void){return 0;}"}

DecompileResults ==
    {[decompileCompleted |-> FALSE, decomp_func |-> FALSE, c_code |-> ""],
     [decompileCompleted |-> TRUE, decomp_func |-> FALSE, c_code |-> ""],
     [decompileCompleted |-> TRUE, decomp_func |-> TRUE, c_code |-> ""]}
    \cup {[decompileCompleted |-> TRUE, decomp_func |-> TRUE, c_code |-> c] : c \in CCodes}

ProgramFunc(name) ==
    [name |-> name, isExternal |-> FALSE, isThunk |-> FALSE,
     getBody |-> [exists |-> TRUE, numAddresses |-> 50]]

Programs ==
    {<<ProgramFunc(name)>> : name \in {"main", "WinMain", "helper", "FUN_00401000", "printf"}}
    \cup {<<ProgramFunc("main"), ProgramFunc("helper")>>,
          <<ProgramFunc("helper"), ProgramFunc("_main")>>,
          <<ProgramFunc("FUN_00401000"), ProgramFunc("main")>>,
          <<ProgramFunc("printf"), ProgramFunc("wWinMain")>>}

ClassifyInit ==
    /\ jobs = <<>>
    /\ tasks = <<>>
    /\ proc = <<>>
    /\ files = {}
    /\ running = {}
    /\ response = NoResponse
    /\ modules = NoModules
    /\ \/ /\ environ \in ClassifierEnvirons
          /\ call \in [fn : {"is_user_function"}, state : {"called"}, func : Funcs]
       \/ /\ environ \in [SKIP_FUN_FUNCTIONS : {""},
                          MIN_FUNCTION_SIZE : {"50", "abc"}]
          /\ call \in [fn : {"decompile_binary"}, state : {"called"},
                       file_path : {FilePath(1, FileName)}, program : Programs]

\* is_user_function(func, func.getName()) returns or raises.
CallIsUserFunction ==
    /\ call.fn = "is_user_function"
    /\ call.state = "called"
    /\ call' = IF is_user_function_raises(call.func, call.func.name)
               THEN [fn |-> call.fn, state |-> "raised", func |-> call.func,
                     error |-> ValueErrorMessage(environ.MIN_FUNCTION_SIZE)]
               ELSE [fn |-> call.fn, state |-> "returned", func |-> call.func,
                     result |-> is_user_function(call.func, call.func.name)]
    /\ UNCHANGED <<jobs, tasks, proc, files, environ, running, response, modules>>

\* decompile_binary(file_path, job_id) returns; what Ghidra does during
\* the call is chosen here.
CallDecompileBinary ==
    /\ call.fn = "decompile_binary"
    /\ call.state = "called"
    /\ \E ghidra \in GhidraRuns :
       \E decompiled \in IF ghidra = "ok"
                         THEN [1..Len(call.program) -> DecompileResults]
                         ELSE {<<>>} :
         call' = [fn |-> call.fn, state |-> "returned",
                  file_path |-> call.file_path, program |-> call.program,
                  ghidra |-> ghidra, decompiled |-> decompiled,
                  functions |-> decompile_binary(call.file_path, call.program,
                                                 ghidra, decompiled)]
    /\ UNCHANGED <<jobs, tasks, proc, files, environ, running, response, modules>>

ClassifyNext == CallIsUserFunction \/ CallDecompileBinary

ClassifySpec == ClassifyInit /\ [][ClassifyNext]_vars

(***************************************************************************)
(* services/llm_service.py: the checks and repairs applied to generated    *)
(* code.                                                                   *)
(***************************************************************************)
\* The character ` cannot be written in a string of this language; the
\* form feed, which no text of the model contains otherwise, stands for it.
BACKTICK == "\f"

garbage_patterns ==
    {"\\x", "@ptrfun", "@ptrcast", "@VERSIONSTRING", "/scratch/", "\\uFFFD",
     "!!!", "???", "([[[", "]]])", "{{{{", "}}}}"}

_is_garbled_output(code) ==
    \/ Len(code) < 10
    \/ LET special_chars ==
             Cardinality({k \in 1..Len(code) :
                            SubSeq(code, k, k) \in {"@", "\\", "^", BACKTICK, "~", "|"}})
       IN  special_chars * 100 > Len(code) * 5
    \/ \E pattern \in garbage_patterns : In(lower(pattern), lower(code))
    \/ LET lines == split(code, "\n")
       IN  \E k \in 1..Len(lines) : Len(lines[k]) > 500
    \/ LET open_braces == count(code, "{")
           close_braces == count(code, "}")
           imbalance == IF open_braces >= close_braces
                        THEN open_braces - close_braces
                        ELSE close_braces - open_braces
       IN  open_braces > 0 /\ imbalance * 2 > open_braces

\* truncate_at = None
NO_TRUNCATE == 0 - 1

\* Strategy 1: the same line more than 3 times in a row.  i is the 0-based
\* index of the line looked at; last_line "" stands for None.
RECURSIVE Strategy1(_, _, _, _)
Strategy1(lines, i, consecutive_repeats, last_line) ==
    IF i >= Len(lines) THEN NO_TRUNCATE
    ELSE
      LET stripped == strip(lines[i + 1])
      IN  IF stripped = ""
          THEN Strategy1(lines, i + 1, consecutive_repeats, last_line)
          ELSE IF stripped = last_line
          THEN IF consecutive_repeats + 1 >= 3
               THEN i - (consecutive_repeats + 1)
               ELSE Strategy1(lines, i + 1, consecutive_repeats + 1, last_line)
          ELSE Strategy1(lines, i + 1, 0, stripped)

\* re.compile(r'std::string\s+(\w+)\s*\(').search(line): the name captured
\* by the leftmost match, "" when there is none.
VarDeclName(line) ==
    LET NameAt(k) ==
            LET r1 == From(line, k + Len("std::string"))
                r2 == From(r1, span(r1, WHITESPACE) + 1)
                w == span(r2, WORD_CHARS)
                r3 == From(r2, w + 1)
                r4 == From(r3, span(r3, WHITESPACE) + 1)
            IN  IF span(r1, WHITESPACE) >= 1 /\ w >= 1 /\ startswith(r4, "(")
                THEN SubSeq(r2, 1, w) ELSE ""
        matches == {k \in 1..(Len(line) - Len("std::string") + 1) :
                      /\ SubSeq(line, k, k + Len("std::string") - 1) = "std::string"
                      /\ NameAt(k) # ""}
    IN  IF matches = {} THEN ""
        ELSE NameAt(CHOOSE k \in matches : \A j \in matches : k <= j)

\* Strategy 2: declared names that grow or shrink by one character, 5 times
\* in a row.  var_lines holds the 0-based indices of the declaring lines,
\* j is the 0-based index into them.
RECURSIVE Strategy2(_, _, _, _)
Strategy2(lines, var_lines, j, inflation_count) ==
    IF Len(var_lines) <= 5 \/ j >= Len(var_lines) THEN NO_TRUNCATE
    ELSE
      LET prev == VarDeclName(lines[var_lines[j] + 1])
          curr == VarDeclName(lines[var_lines[j + 1] + 1])
      IN  IF \/ Len(curr) = Len(prev) + 1 /\ startswith(curr, prev)
             \/ Len(prev) = Len(curr) + 1 /\ startswith(prev, curr)
          THEN IF inflation_count + 1 >= 5
               THEN var_lines[j - (inflation_count + 1) + 1]
               ELSE Strategy2(lines, var_lines, j + 1, inflation_count + 1)
          ELSE Strategy2(lines, var_lines, j + 1, 0)

\* Strategy 3: more than 15 lines mention std::string; cut at the 11th.
Strategy3(lines) ==
    LET decls == {k \in 1..Len(lines) : In("std::string", lines[k])}
    IN  IF Cardinality(decls) > 15
        THEN (CHOOSE k \in decls : Cardinality({d \in decls : d <= k}) = 11) - 1
        ELSE NO_TRUNCATE

\* Strategy 4: a line of 15 characters or more seen 4 times; cut at its
\* second occurrence.
Strategy4(lines) ==
    LET Counted(k) ==
            /\ strip(lines[k]) \notin {"", "{", "}", ";", "return;", "break;"}
            /\ Len(strip(lines[k])) >= 15
        Seen(k) == {d \in 1..k : strip(lines[d]) = strip(lines[k])}
        fourth == {k \in 1..Len(lines) : Counted(k) /\ Cardinality(Seen(k)) >= 4}
    IN  IF fourth = {} THEN NO_TRUNCATE
        ELSE LET k == CHOOSE k \in fourth : \A d \in fourth : k <= d
             IN  (CHOOSE d \in Seen(k) : Cardinality({e \in Seen(k) : e <= d}) = 2) - 1

\* Mutant: a text is cut when the place found lies behind its third line.
M_detect_and_truncate_repetition(code) ==
    LET VarLines(lines) ==
            SelectSeq([k \in 1..Len(lines) |-> k - 1],
                      LAMBDA i : VarDeclName(lines[i + 1]) # "")
        \* the first strategy of the sequence that found a place to cut
        First(found) ==
            IF \A k \in 1..Len(found) : found[k] = NO_TRUNCATE THEN NO_TRUNCATE
            ELSE found[CHOOSE k \in 1..Len(found) :
                         /\ found[k] # NO_TRUNCATE
                         /\ \A j \in 1..(k - 1) : found[j] = NO_TRUNCATE]
        TruncateAt(lines) ==
            First(<<Strategy1(lines, 0, 0, ""),
                    Strategy2(lines, VarLines(lines), 1, 0),
                    Strategy3(lines), Strategy4(lines)>>)
        Close(truncated) ==
            IF count(truncated, "{") > count(truncated, "}")
            THEN truncated \o "\n    // ... (output truncated - repetition detected)\n}"
            ELSE truncated
        Cut(lines, truncate_at) ==
            IF Len(lines) < 10 THEN code
            ELSE IF truncate_at > 2
            THEN Close(join("\n", SubSeq(lines, 1, truncate_at)))
            ELSE code
        Detect(lines) == Cut(lines, TruncateAt(lines))
    IN  Detect(split(code, "\n"))

_detect_and_truncate_repetition(code) ==
    LET VarLines(lines) ==
            SelectSeq([k \in 1..Len(lines) |-> k - 1],
                      LAMBDA i : VarDeclName(lines[i + 1]) # "")
        \* the first strategy of the sequence that found a place to cut
        First(found) ==
            IF \A k \in 1..Len(found) : found[k] = NO_TRUNCATE THEN NO_TRUNCATE
            ELSE found[CHOOSE k \in 1..Len(found) :
                         /\ found[k] # NO_TRUNCATE
                         /\ \A j \in 1..(k - 1) : found[j] = NO_TRUNCATE]
        TruncateAt(lines) ==
            First(<<Strategy1(lines, 0, 0, ""),
                    Strategy2(lines, VarLines(lines), 1, 0),
                    Strategy3(lines), Strategy4(lines)>>)
        Close(truncated) ==
            IF count(truncated, "{") > count(truncated, "}")
            THEN truncated \o "\n    // ... (output truncated - repetition detected)\n}"
            ELSE truncated
        Cut(lines, truncate_at) ==
            IF Len(lines) < 10 THEN code
            ELSE IF truncate_at > 5
            THEN Close(join("\n", SubSeq(lines, 1, truncate_at)))
            ELSE code
        Detect(lines) == Cut(lines, TruncateAt(lines))
    IN  Detect(split(code, "\n"))

\* The last loop of _format_c_code: every line stripped and indented by
\* four spaces per open brace.
RECURSIVE Indent(_, _)
Indent(lines, indent) ==
    IF lines = <<>> THEN <<>>
    ELSE
      LET stripped == strip(Head(lines))
          depth == IF startswith(stripped, "}") THEN Max(0, indent - 1) ELSE indent
          spaces == [k \in 1..depth |-> "    "]
      IN  IF stripped = "" THEN <<"">> \o Indent(Tail(lines), indent)
          ELSE <<concat(spaces, 1, depth) \o stripped>>
               \o Indent(Tail(lines),
                         IF endswith(stripped, "{") THEN depth + 1 ELSE depth)

\* The regular-expression substitutions of _format_c_code followed by the
\* indentation.  Each substitution is computed position by position.
Reformat(code) ==
    LET At(s, k) == IF k \in 1..Len(s) THEN SubSeq(s, k, k) ELSE ""
        \* the first position at or after k that holds no whitespace
        SkipSpace(s, k) == k + span(From(s, k), WHITESPACE)
        \* whether the whitespace that starts at position k holds a newline
        NewlineIn(s, k) == In("\n", SubSeq(s, k, SkipSpace(s, k) - 1))
        \* r'for\s*\([^)]+\)' matches at position i: the position of its ")"
        ForEnd(s, i) ==
            LET p == SkipSpace(s, i + 3)
                q == find(s, ")", p + 1)
            IN  IF i + 2 <= Len(s) /\ SubSeq(s, i, i + 2) = "for"
                   /\ At(s, p) = "(" /\ q > p + 1
                THEN q ELSE 0
        InFor(s, k) == \E i \in 1..k : ForEnd(s, i) >= k
        \* re.sub(r';(?!\s*\n)', ';\n', result), for loops protected
        Semicolon(s, k) ==
            IF At(s, k) = ";" /\ ~InFor(s, k) /\ ~NewlineIn(s, k + 1)
            THEN ";\n" ELSE At(s, k)
        \* re.sub(r'\{(?!\s*\n)', '{\n', result)
        Open(s, k) ==
            IF At(s, k) = "{" /\ ~NewlineIn(s, k + 1) THEN "{\n" ELSE At(s, k)
        \* re.sub(r'(?<!\n)\s*\}', '\n}', result)
        BeforeClose(s, k) ==
            IF At(s, k) = "}" THEN "\n}"
            ELSE IF At(s, k) \in WHITESPACE /\ At(s, SkipSpace(s, k)) = "}" THEN ""
            ELSE At(s, k)
        \* re.sub(r'\}(?!\s*else)(?!\s*\n)(?!\s*$)', '}\n', result)
        AfterClose(s, k) ==
            IF /\ At(s, k) = "}"
               /\ ~startswith(From(s, SkipSpace(s, k + 1)), "else")
               /\ ~NewlineIn(s, k + 1)
               /\ SkipSpace(s, k + 1) <= Len(s)
            THEN "}\n" ELSE At(s, k)
        \* re.sub(r'\n{3,}', '\n\n', result)
        Collapse(s, k) ==
            IF At(s, k) = "\n" /\ At(s, k - 1) = "\n" /\ At(s, k - 2) = "\n"
            THEN "" ELSE At(s, k)
        s1 == concat([k \in 1..Len(code) |-> Semicolon(code, k)], 1, Len(code))
        s2 == concat([k \in 1..Len(s1) |-> Open(s1, k)], 1, Len(s1))
        s3 == concat([k \in 1..Len(s2) |-> BeforeClose(s2, k)], 1, Len(s2))
        s4 == concat([k \in 1..Len(s3) |-> AfterClose(s3, k)], 1, Len(s3))
        result == concat([k \in 1..Len(s4) |-> Collapse(s4, k)], 1, Len(s4))
    IN  join("\n", Indent(split(result, "\n"), 0))

_format_c_code(code) ==
    LET Format(truncated) ==
            IF truncated = "" \/ (In("\n", truncated) /\ count(truncated, "\n") > 5)
            THEN truncated
            ELSE Reformat(truncated)
    IN  Format(_detect_and_truncate_repetition(code))

\* code with the replacements applied one after the other
RECURSIVE replace_all(_, _)
replace_all(code, replacements) ==
    IF replacements = <<>> THEN code
    ELSE replace_all(replace(code, Head(replacements)[1], Head(replacements)[2]),
                     Tail(replacements))

\* mock_decompile_to_c: the type names rewritten in the order of the
\* replace calls, then the formatting.
mock_decompile_to_c(pseudo_code) ==
    LET replacements ==
            << <<"undefined8", "uint64_t">>, <<"undefined4", "uint32_t">>,
               <<"undefined2", "uint16_t">>, <<"undefined1", "uint8_t">>,
               <<"undefined", "uint8_t">>, <<"longlong", "int64_t">>,
               <<"ulonglong", "uint64_t">>, <<"(void *)0x0", "NULL">>,
               <<"== 0x0", "== NULL">>, <<"!= 0x0", "!= NULL">> >>
    IN  _format_c_code(replace_all(pseudo_code, replacements))

(***************************************************************************)
(* services/ai_service.py: the two-stage refactoring of one function.      *)
(*                                                                         *)
(* A function of the services either returns a text or lets an exception   *)
(* out: [raised |-> FALSE, value |-> text] or [raised |-> TRUE, value |->  *)
(* message].  What a backend does when it is called is an input: the       *)
(* local model yields a generation [kind, text] with kind "text" or        *)
(* "raises"; the chat client yields a completion [kind, text] with kind    *)
(* "text", "none" (message.content is None) or "raises".                   *)
(***************************************************************************)
Return(text) == [raised |-> FALSE, value |-> text]

\* decompile_to_c, with llm "not_loaded" when get_model() has no model.
decompile_to_c(ghidra_pseudo_c, llm, generation) ==
    IF llm = "not_loaded" THEN Return(ghidra_pseudo_c)
    ELSE IF generation.kind = "raises" THEN Return(ghidra_pseudo_c)
    ELSE LET Checked(formatted) ==
                 IF _is_garbled_output(formatted) THEN Return(ghidra_pseudo_c)
                 ELSE Return(formatted)
         IN  Checked(_format_c_code(strip(generation.text)))

\* _improve_readability with context_functions None.
_improve_readability(function_name, code, completion) ==
    IF completion.kind # "text" THEN Return(code)
    ELSE
      LET result == completion.text
          fence == BACKTICK \o BACKTICK \o BACKTICK
          lines == Tail(split(result, "\n"))
          unfenced == IF lines # <<>> /\ strip(lines[Len(lines)]) = fence
                      THEN SubSeq(lines, 1, Len(lines) - 1) ELSE lines
      IN  IF startswith(result, fence) THEN Return(strip(join("\n", unfenced)))
          ELSE Return(strip(result))

_mock_readability(function_name, code) ==
    LET header == "/**\n * Function: " \o function_name \o "\n * \n"
                  \o " * [Decompiled and refactored code]\n"
                  \o " * Stage 1: LLM4Decompile - structural fixes\n"
                  \o " * Stage 2: Skipped (no API key)\n */\n"
        replacements ==
            << <<"iVar1", "index">>, <<"iVar2", "counter">>, <<"uVar2", "result">>,
               <<"uVar3", "return_value">>, <<"param_1", "input">>,
               <<"param_2", "size">>, <<"pcVar3", "message">>,
               <<"pvVar2", "buffer">>, <<"pvVar3", "ptr">>, <<"lVar1", "total">>,
               <<"lVar3", "offset">>, <<"lVar4", "computed_value">>,
               <<"sVar1", "string_length">>, <<"local_10", "local_var_a">>,
               <<"local_14", "local_var_b">>, <<"local_18", "local_var_c">> >>
    IN  Return(header \o replace_all(code, replacements))

\* Mutant: the mock transformer is used whenever no model is loaded.
M_FirstPass(raw_code, llm, generation) ==
    IF llm = "loaded" THEN decompile_to_c(raw_code, llm, generation)
    ELSE Return(mock_decompile_to_c(raw_code))

\* Stage 1 of refactor_code; llm "unavailable" when is_available() is False.
FirstPass(raw_code, llm, generation) ==
    IF llm # "unavailable" THEN decompile_to_c(raw_code, llm, generation)
    ELSE Return(mock_decompile_to_c(raw_code))

\* refactor_code(function_name, raw_code); client tells whether the OpenAI
\* client was configured.
refactor_code(function_name, raw_code, llm, generation, client, completion) ==
    LET SecondPass(correct_c) ==
            IF correct_c.raised THEN correct_c
            ELSE IF client
            THEN _improve_readability(function_name, correct_c.value, completion)
            ELSE _mock_readability(function_name, correct_c.value)
    IN  SecondPass(FirstPass(raw_code, llm, generation))

(***************************************************************************)
(* Direct calls of the refinement: refactor_code on a function's code,     *)
(* _detect_and_truncate_repetition on a text, and _is_garbled_output on a  *)
(* text.                                                                   *)
(***************************************************************************)
\* The largest number of times a line is repeated in a text.
MaxRepeats == 5
\* The largest number of opening, and of closing, braces in a text given to
\* the garble check.
MaxBraces == 4

\* Raw code: none, one line of Ghidra types, and the sample functions.
RawCodes ==
    {"", "undefined8 f(undefined4 p){if(p == 0x0){return (void *)0x0;}return 1;}"}
    \cup {f[2] : f \in {_mock_decompile(FilePath(1, FileName))[k] : k \in {1, 2}}}

NotCalled == [kind |-> "not_called", text |-> ""]

\* What the local model generates: clean code, minified code, next to
\* nothing, code with the artifact !!! before, after or without a run of
\* MaxRepeats - 1 identical lines, such a run alone; or it raises.
Generations ==
    LET head == "int f(void)\n{\n    int a;\n    int b;\n    a = 1;\n    b = 2;\n"
        run == concat([k \in 1..(MaxRepeats - 1) |-> "    a = a + b;\n"],
                      1, MaxRepeats - 1)
    IN  {[kind |-> "raises", text |-> ""]}
        \cup {[kind |-> "text", text |-> t] : t \in
               {head \o "    return a + b;\n}\n",
                "int f(void){int a=1;for(int i=0;i<3;i++){a+=i;}return a;}",
                "ok",
                "int f(void)\n{\n    return 0; !!!\n}\n",
                "// !!!\n" \o head \o run \o "    return a;\n}\n",
                head \o run \o "    !!!\n}\n",
                head \o run \o "    return a;\n}\n"}}

\* What the chat client returns: readable code, the same inside a code
\* fence, text full of artifacts, no content; or it raises.
Completions ==
    {[kind |-> "raises", text |-> ""], [kind |-> "none", text |-> ""]}
    \cup {[kind |-> "text", text |-> t] : t \in
           {"int f(void)\n{\n    int total = 1;\n    return total;\n}\n",
            BACKTICK \o BACKTICK \o BACKTICK \o "c\nint f(void)\n{\n    return 1;\n}\n"
              \o BACKTICK \o BACKTICK \o BACKTICK \o "\n",
            "@ptrfun f ??? !!! /scratch/tmp {{{{\n"}}

\* Texts given to the truncation: six or three first lines, or four and
\* three blank ones, then a line repeated 0..MaxRepeats times, in a row or
\* every second line, then the rest.
TruncationInputs ==
    LET heads == {<<"int f(void)", "{", "    int a;", "    int b;", "    a = 1;", "    b = 2;">>,
                  <<"int f(void)", "{", "    int a;", "    a = 1;", "    if (a) {", "        a = 2;">>,
                  <<"int g(void)", "{", "    return 1;", "}", "", "int a;">>,
                  <<"    a = 1;", "}", "}", "int b;", "int c;", "int d;">>,
                  <<"int a;", "int b;", "int c;", "int d;", "int e;", "int f;">>,
                  <<"int f(void)", "{", "    int a;">>,
                  <<"int f(void)", "{", "    int a;", "x;", "", "", "">>}
        repeated == {"x;", "    total = total + 1;"}
        rests == {<<>>, <<"}">>, <<"    return a;", "}">>}
        Run(line, n, every) ==
            [k \in 1..(n * every) |-> IF k % every = 0 THEN line ELSE "y;"]
    IN  {join("\n", head \o Run(line, n, every) \o rest) :
           head \in heads, line \in repeated, n \in 0..MaxRepeats,
           every \in {1, 2}, rest \in rests}

\* Texts given to the garble check: a function with 0..MaxBraces opening
\* and 0..MaxBraces closing braces, none of them next to another, and
\* nothing else that _is_garbled_output looks for.
BraceTexts ==
    {"int f(void)\n"
       \o concat([k \in 1..open |-> "{ a = a + 1;\n"], 1, open)
       \o "return a;\n"
       \o concat([k \in 1..close |-> "}\n"], 1, close) :
     open \in 0..MaxBraces, close \in 0..MaxBraces}

RefineInit ==
    /\ jobs = <<>>
    /\ tasks = <<>>
    /\ proc = <<>>
    /\ files = {}
    /\ running = {}
    /\ response = NoResponse
    /\ modules = NoModules
    /\ environ = [OPENAI_API_KEY |-> None]
    /\ \/ call \in [fn : {"refactor_code"}, state : {"called"},
                    function_name : {"main"}, raw_code : RawCodes]
       \/ call \in [fn : {"_detect_and_truncate_repetition"}, state : {"called"},
                    code : TruncationInputs]
       \/ call \in [fn : {"_is_garbled_output"}, state : {"called"},
                    code : BraceTexts]

\* refactor_code(function_name, raw_code) returns or raises; what the
\* backends do during the call is chosen here.
CallRefactorCode ==
    /\ call.fn = "refactor_code"
    /\ call.state = "called"
    /\ \E llm \in {"unavailable", "not_loaded", "loaded"}, client \in BOOLEAN :
       \E generation \in IF llm = "loaded" THEN Generations ELSE {NotCalled},
          completion \in IF client THEN Completions ELSE {NotCalled} :
         \E correct_c \in {FirstPass(call.raw_code, llm, generation)},
            outcome \in {refactor_code(call.function_name, call.raw_code,
                                       llm, generation, client, completion)} :
           call' = [fn |-> call.fn,
                    state |-> IF outcome.raised THEN "raised" ELSE "returned",
                    function_name |-> call.function_name,
                    raw_code |-> call.raw_code,
                    llm |-> llm, generation |-> generation,
                    client |-> client, completion |-> completion,
                    correct_c |-> correct_c.value,
                    result |-> outcome.value]
    /\ UNCHANGED <<jobs, tasks, proc, files, environ, running, response, modules>>

\* _detect_and_truncate_repetition(code) returns.
CallTruncate ==
    /\ call.fn = "_detect_and_truncate_repetition"
    /\ call.state = "called"
    /\ call' = [fn |-> call.fn, state |-> "returned", code |-> call.code,
                result |-> _detect_and_truncate_repetition(call.code)]
    /\ UNCHANGED <<jobs, tasks, proc, files, environ, running, response, modules>>

\* _is_garbled_output(code) returns.
CallIsGarbledOutput ==
    /\ call.fn = "_is_garbled_output"
    /\ call.state = "called"
    /\ call' = [fn |-> call.fn, state |-> "returned", code |-> call.code,
                result |-> _is_garbled_output(call.code)]
    /\ UNCHANGED <<jobs, tasks, proc, files, environ, running, response, modules>>

RefineNext == CallRefactorCode \/ CallTruncate \/ CallIsGarbledOutput

RefineSpec == RefineInit /\ [][RefineNext]_vars

(***************************************************************************)
(* The availability of the backends: the module-level statements of        *)
(* llm_service.py and ai_service.py, which run once when process_binary    *)
(* first imports the services, and refactor_code called again and again    *)
(* while the environment of the process changes.                           *)
(***************************************************************************)
\* The environment as the services read it: two variables of os.environ,
\* unset ones as None or the default "", and whether torch and
\* transformers can be imported.
AvailabilityEnvirons ==
    [DISABLE_LLM4DECOMPILE : {"", "TRUE"},
     torch_import : BOOLEAN,
     OPENAI_API_KEY : {None, "sk-test"}]

\* llm_service.py at import: DISABLED_BY_ENV, LLM4DECOMPILE_AVAILABLE, _model.
llm_service(env) ==
    LET DISABLED_BY_ENV == lower(env.DISABLE_LLM4DECOMPILE) \in {"true", "1", "yes"}
    IN  [DISABLED_BY_ENV |-> DISABLED_BY_ENV,
         LLM4DECOMPILE_AVAILABLE |-> ~DISABLED_BY_ENV /\ env.torch_import,
         _model |-> None]

\* ai_service.py at import: client is an OpenAI client when OPENAI_API_KEY
\* is set and not empty.
ai_service(env) ==
    [client |-> IF env.OPENAI_API_KEY \notin {None, ""} THEN "OpenAI" ELSE None]

\* llm_service.is_available()
is_available(llm) == llm.LLM4DECOMPILE_AVAILABLE /\ ~llm.DISABLED_BY_ENV

AvailabilityInit ==
    /\ jobs = <<>>
    /\ tasks = <<>>
    /\ proc = <<>>
    /\ files = {}
    /\ running = {}
    /\ response = NoResponse
    /\ environ \in AvailabilityEnvirons
    /\ modules = [imported |-> TRUE, llm_service |-> llm_service(environ),
                  ai_service |-> ai_service(environ)]
    /\ call = [fn |-> "refactor_code", state |-> "called",
               function_name |-> "main", raw_code |-> "undefined8 f(void){return 0x0;}"]

\* Between two calls the environment changes: a variable of os.environ is
\* assigned, or the packages are installed or removed.
Setenv ==
    /\ call.fn = "refactor_code"
    /\ \E env \in AvailabilityEnvirons :
         /\ env # environ
         /\ \E name \in DOMAIN env : \A other \in DOMAIN env \ {name} : env[other] = environ[other]
         /\ environ' = env
    /\ UNCHANGED <<jobs, tasks, proc, files, running, response, call, modules>>

\* refactor_code(function_name, raw_code) is awaited, for the first time
\* or again.  get_model() loads the model when _model is None, which works
\* or fails, and keeps a loaded model.  The model generates and the chat
\* client completes the same clean texts in every call.
AwaitRefactorCode ==
    /\ call.fn = "refactor_code"
    /\ \E loads \in BOOLEAN :
       \E llm \in {IF ~is_available(modules.llm_service) THEN "unavailable"
                   ELSE IF modules.llm_service._model # None \/ loads THEN "loaded"
                   ELSE "not_loaded"},
          client \in {modules.ai_service.client # None} :
       \E generation \in {IF llm = "loaded"
                           THEN [kind |-> "text", text |-> "int f(void)\n{\n    return 0;\n}\n"]
                           ELSE NotCalled},
          completion \in {IF client
                           THEN [kind |-> "text",
                                 text |-> "int f(void)\n{\n    return 0; // zero\n}\n"]
                           ELSE NotCalled} :
         \E correct_c \in {FirstPass(call.raw_code, llm, generation)},
            outcome \in {refactor_code(call.function_name, call.raw_code,
                                       llm, generation, client, completion)} :
           /\ call' = [fn |-> call.fn, state |-> "returned",
                       function_name |-> call.function_name,
                       raw_code |-> call.raw_code,
                       environ |-> environ,
                       llm |-> llm, generation |-> generation,
                       client |-> client, completion |-> completion,
                       correct_c |-> correct_c.value,
                       result |-> outcome.value]
           /\ modules' = [modules EXCEPT !.llm_service._model =
                            IF llm = "loaded" THEN "model" ELSE @]
    /\ UNCHANGED <<jobs, tasks, proc, files, environ, running, response>>

AvailabilityNext == Setenv \/ AwaitRefactorCode

AvailabilitySpec == AvailabilityInit /\ [][AvailabilityNext]_vars

(***************************************************************************)
(* services/modal_client.py and services/vertex_client.py: the calls of    *)
(* the remote backends.  What the HTTP request of a call does is an input: *)
(* httpx raises TimeoutException after the client's 120 seconds, raises    *)
(* ConnectError, or gives a response with a status code and, under the key *)
(* refined_code of its JSON (of its first prediction for the Vertex        *)
(* prediction API), a text or nothing (None).                              *)
(***************************************************************************)
HttpOutcomes ==
    [kind : {"TimeoutException", "ConnectError"}, status_code : {0}, refined_code : {None}]
    \cup [kind : {"response"}, status_code : {404, 500}, refined_code : {None}]
    \cup [kind : {"response"}, status_code : {200},
          refined_code : {None, "int f(void)\n{\n    return 0;\n}\n"}]

\* Mutant: a failed request is raised to the caller.
M_decompile_with_modal(ghidra_code, http) ==
    IF http.kind # "response" \/ http.status_code # 200
    THEN [raised |-> TRUE, value |-> "Modal endpoint error"]
    ELSE Return(IF http.refined_code = None THEN ghidra_code ELSE http.refined_code)

\* ModalDecompileClient.decompile
ModalDecompileClient_decompile(ghidra_code, http) ==
    IF http.kind = "TimeoutException"
    THEN [raised |-> TRUE,
          value |-> "Modal endpoint timed out (cold start may take up to 60s)"]
    ELSE IF http.kind = "ConnectError"
    THEN [raised |-> TRUE, value |-> "Failed to connect to Modal endpoint: "]
    ELSE IF http.status_code # 200
    THEN [raised |-> TRUE,
          value |-> "Modal endpoint error: " \o ToString(http.status_code) \o " - "]
    ELSE Return(IF http.refined_code = None THEN ghidra_code ELSE http.refined_code)

decompile_with_modal(ghidra_code, http) ==
    LET Caught(outcome) == IF outcome.raised THEN Return(ghidra_code) ELSE outcome
    IN  Caught(ModalDecompileClient_decompile(ghidra_code, http))

\* get_vertex_client() when no client has been made yet: None (exists is
\* FALSE), or a client with its direct_url.
get_vertex_client(env) ==
    IF env.VERTEX_ENDPOINT_ID \in {None, ""}
    THEN [exists |-> FALSE, direct_url |-> None]
    ELSE IF env.GCP_PROJECT_ID \in {None, ""}
    THEN [exists |-> FALSE, direct_url |-> None]
    ELSE [exists |-> TRUE, direct_url |-> env.VERTEX_DIRECT_URL]

\* VertexDecompileClient.decompile: _call_direct or _call_vertex; credentials
\* tells whether google.auth finds valid credentials.
VertexDecompileClient_decompile(client, ghidra_code, credentials, http) ==
    IF client.direct_url \in {None, ""} /\ ~credentials
    THEN [raised |-> TRUE, value |-> "DefaultCredentialsError"]
    ELSE IF http.kind # "response"
    THEN [raised |-> TRUE, value |-> http.kind]
    ELSE IF http.status_code # 200
    THEN [raised |-> TRUE,
          value |-> (IF client.direct_url \in {None, ""} THEN "Vertex AI error: "
                     ELSE "Direct endpoint error: ") \o ToString(http.status_code) \o " - "]
    ELSE Return(IF http.refined_code = None THEN "" ELSE http.refined_code)

decompile_with_vertex(env, ghidra_code, credentials, http) ==
    LET Caught(outcome) == IF outcome.raised THEN Return(ghidra_code) ELSE outcome
        With(client) ==
            IF ~client.exists THEN Return(ghidra_code)
            ELSE Caught(VertexDecompileClient_decompile(client, ghidra_code, credentials, http))
    IN  With(get_vertex_client(env))

RemoteInit ==
    /\ jobs = <<>>
    /\ tasks = <<>>
    /\ proc = <<>>
    /\ files = {}
    /\ running = {}
    /\ response = NoResponse
    /\ modules = NoModules
    /\ environ \in [VERTEX_ENDPOINT_ID : {None, "1234567890"},
                    GCP_PROJECT_ID : {None, "my-project"},
                    VERTEX_DIRECT_URL : {None, "http://10.0.0.2:8080"}]
    /\ call \in [fn : {"decompile_with_modal", "decompile_with_vertex"},
                 state : {"called"}, ghidra_code : RawCodes]

\* decompile_with_modal(ghidra_code) returns or raises.
CallDecompileWithModal ==
    /\ call.fn = "decompile_with_modal"
    /\ call.state = "called"
    /\ \E http \in HttpOutcomes :
       \E outcome \in {decompile_with_modal(call.ghidra_code, http)} :
         call' = [fn |-> call.fn,
                  state |-> IF outcome.raised THEN "raised" ELSE "returned",
                  ghidra_code |-> call.ghidra_code, http |-> http,
                  result |-> outcome.value]
    /\ UNCHANGED <<jobs, tasks, proc, files, environ, running, response, modules>>

\* decompile_with_vertex(ghidra_code) returns or raises; without a client no
\* request is made.
CallDecompileWithVertex ==
    /\ call.fn = "decompile_with_vertex"
    /\ call.state = "called"
    /\ \E credentials \in BOOLEAN :
       \E http \in IF ~get_vertex_client(environ).exists
                   THEN {[kind |-> "not_called", status_code |-> 0, refined_code |-> None]}
                   ELSE HttpOutcomes :
       \E outcome \in {decompile_with_vertex(environ, call.ghidra_code, credentials, http)} :
         call' = [fn |-> call.fn,
                  state |-> IF outcome.raised THEN "raised" ELSE "returned",
                  ghidra_code |-> call.ghidra_code, http |-> http,
                  credentials |-> credentials,
                  result |-> outcome.value]
    /\ UNCHANGED <<jobs, tasks, proc, files, environ, running, response, modules>>

RemoteNext == CallDecompileWithModal \/ CallDecompileWithVertex

RemoteSpec == RemoteInit /\ [][RemoteNext]_vars

(***************************************************************************)
(* Properties.                                                             *)
(***************************************************************************)
Terminal == {COMPLETED, FAILED}

\* The order pending < uploading < disassembling < analyzing <
\* ai_refactoring < completed.
StatusRank(status) ==
    CASE status = PENDING -> 0
      [] status = UPLOADING -> 1
      [] status = DISASSEMBLING -> 2
      [] status = ANALYZING -> 3
      [] status = AI_REFACTORING -> 4
      [] status = COMPLETED -> 5
      [] status = FAILED -> 6

Exited(j) == j \in DOMAIN proc /\ proc[j].pc \in PcExited

\* C1: in every step a job's status stays or moves forward in the order
\* pending < ... < completed, or moves to failed from a non-terminal status;
\* a completed or failed status never changes.
C1_StatusMonotonic ==
    [][\A j \in DOMAIN jobs :
         LET before == jobs[j].status
             after == jobs'[j].status
         IN /\ before \in Terminal => after = before
            /\ (after = FAILED /\ before # FAILED) => before \notin Terminal
            /\ (after # FAILED /\ before # FAILED) =>
                   StatusRank(before) <= StatusRank(after)]_vars

\* Two routines have ended, one in completed and one in failed, the failed
\* one after it had reached ai_refactoring.
C1_Witness ==
    \E j \in DOMAIN jobs, k \in DOMAIN jobs :
        /\ Exited(j) /\ jobs[j].status = COMPLETED
        /\ Exited(k) /\ jobs[k].status = FAILED /\ proc[k].exception.at = "refactor_code"

\* C2: when the adapter has returned the mapping that holds only main, the
\* routine ends with the job completed and one function in the raw map and
\* one in the refined map, in every mode.
C2_MainOnlyCompletes ==
    \A j \in DOMAIN proc :
        (/\ proc[j].pc = "exited"
         /\ Len(proc[j].functions) = 1
         /\ proc[j].functions[1][1] = N_main
         /\ environ.MAX_FUNCTIONS = DEFAULT_MAX_FUNCTIONS)
        => /\ jobs[j].status = COMPLETED
           /\ Len(jobs[j].raw_functions) = 1
           /\ Len(jobs[j].refactored_functions) = 1

\* C3: a routine in which a step has raised has caught the exception: the
\* job is failed, its error is the exception's message, its log holds the
\* error line, and the routine did not end by the exception.
C3_ExceptionsCaught ==
    \A j \in DOMAIN proc :
        proc[j].exception # NoException
        => /\ proc[j].pc # "raised"
           /\ jobs[j].status = FAILED
           /\ jobs[j].error = proc[j].exception.message
           /\ \E n \in 1..Len(jobs[j].logs) :
                  jobs[j].logs[n] = <<"[!] Error: ", proc[j].exception.message>>

\* C4: once a routine has ended, by any path, the uploaded file of its job
\* does not exist.
C4_TempFileRemoved ==
    \A j \in DOMAIN proc : proc[j].pc \in PcExited => proc[j].file_path \notin files

\* C5: every submitted job eventually is completed or failed.
C5_EveryJobEnds ==
    \A j \in JobIds :
        (j \in DOMAIN jobs) ~> (j \in DOMAIN jobs /\ jobs[j].status \in Terminal)

\* C6: a refinement call that raises does not fail the job: the job is never
\* failed because of it, and when the routine has ended the job is completed
\* and the refined text of the function whose call raised is its raw text.
C6_RefinementFailureNotFatal ==
    \A j \in DOMAIN proc :
        proc[j].exception.at = "refactor_code"
        => /\ jobs[j].status # FAILED
           /\ proc[j].pc = "exited" =>
                /\ jobs[j].status = COMPLETED
                /\ LET f == proc[j].funcs_to_process[proc[j].i + 1]
                   IN DictGet(jobs[j].refactored_functions, f[1]) = f[2]

\* C7: progress is an integer in 0..100 fixed by the status (10
\* disassembling, 40 analyzing, 60..95 ai_refactoring, 100 completed), no
\* step lowers it, the step to failed included, and the loop's formula stays
\* in 60..95 and does not decrease for every index of every batch size.
C7_Progress ==
    /\ [](\A j \in DOMAIN jobs :
            /\ jobs[j].progress \in 0..100
            /\ jobs[j].status = DISASSEMBLING => jobs[j].progress = 10
            /\ jobs[j].status = ANALYZING => jobs[j].progress = 40
            /\ jobs[j].status = AI_REFACTORING => jobs[j].progress \in 60..95
            /\ jobs[j].status = COMPLETED => jobs[j].progress = 100)
    /\ [](\A total \in 1..MaxBatch : \A i \in 0..(total - 1) :
            /\ ProgressAt(i, total) \in 60..95
            /\ i > 0 => ProgressAt(i - 1, total) <= ProgressAt(i, total))
    /\ [][\A j \in DOMAIN jobs : jobs[j].progress <= jobs'[j].progress]_vars

\* A job failed in the refinement loop and kept the progress it had there,
\* and another job is completed.
C7_Witness ==
    \E j \in DOMAIN jobs, k \in DOMAIN jobs :
        /\ jobs[j].status = FAILED /\ jobs[j].progress = 60
        /\ jobs[k].status = COMPLETED /\ jobs[k].progress = 100

\* C8: an upload of a valid binary is answered 200, and a step that answers
\* an upload with 200 adds one job under an identifier that was not in the
\* table, pending, progress 0, both maps empty, no error; appends one routine
\* for that identifier to the background tasks; starts or advances no
\* routine; and changes no other job.
C8_Submit ==
    /\ [][\A content \in Contents, mode \in Modes :
            (/\ content.len <= MAX_FILE_SIZE
             /\ validate_binary(content)
             /\ upload_binary(content, FileName, mode[1], mode[2]))
            => (response'.op = "upload" /\ response'.code = 200)]_vars
    /\ [][(response'.op = "upload" /\ response'.code = 200)
       => LET id == response'.job_id
          IN /\ id \notin DOMAIN jobs
             /\ DOMAIN jobs' = DOMAIN jobs \cup {id}
             /\ jobs'[id].status = PENDING
             /\ jobs'[id].progress = 0
             /\ jobs'[id].raw_functions = <<>>
             /\ jobs'[id].refactored_functions = <<>>
             /\ jobs'[id].error = None
             /\ \A j \in DOMAIN jobs : jobs'[j] = jobs[j]
             /\ Len(tasks') = Len(tasks) + 1
             /\ SubSeq(tasks', 1, Len(tasks)) = tasks
             /\ tasks'[Len(tasks')].job_id = id
             /\ \A n \in 1..Len(tasks) : tasks[n].job_id # id
             /\ proc' = proc
             /\ running' = running]_vars

\* A second upload has been answered while the first job's routine has ended.
C8_Witness ==
    /\ response.op = "upload"
    /\ response.code = 200
    /\ response.job_id = 2
    /\ Exited(1)
    /\ jobs[1].status \in Terminal
    /\ jobs[2].status = PENDING

\* C9: for a job in the table get_job_result answers 400 while the status is
\* pending, uploading, disassembling, analyzing or ai_refactoring and 200 when
\* it is completed or failed, and a step that answers it leaves the table as
\* it is.
C9_ResultReadiness ==
    /\ [](\A j \in DOMAIN jobs :
            JobResultResponse(jobs, j).code =
                (IF jobs[j].status \in Terminal THEN 200 ELSE 400))
    /\ [][response'.op = "result"
          => /\ jobs' = jobs
             /\ response'.code = 200 =>
                  /\ response'.job_id \in DOMAIN jobs
                  /\ jobs[response'.job_id].status \in Terminal
                  /\ response'.status = jobs[response'.job_id].status
             /\ response'.code = 400 =>
                  \E j \in DOMAIN jobs : jobs[j].status \notin Terminal]_vars

\* The result of a failed job has been served while another job is pending.
C9_Witness ==
    /\ response.op = "result"
    /\ response.code = 200
    /\ response.status = FAILED
    /\ \E k \in DOMAIN jobs : jobs[k].status = PENDING

\* C10: for an identifier that is not in the table get_job_status and
\* get_job_result answer 404; for one in the table get_job_status answers
\* the job's status, stage, progress, logs and error; a step that answers
\* either leaves the table as it is.
C10_Queries ==
    /\ [](\A id \in QueryIds \ DOMAIN jobs :
            /\ JobStatusResponse(jobs, id).code = 404
            /\ JobResultResponse(jobs, id).code = 404)
    /\ [](\A id \in DOMAIN jobs :
            LET r == JobStatusResponse(jobs, id)
            IN /\ r.code = 200
               /\ r.job_id = id
               /\ r.status = jobs[id].status
               /\ r.stage = jobs[id].stage
               /\ r.progress = jobs[id].progress
               /\ r.logs = jobs[id].logs
               /\ r.error = jobs[id].error)
    /\ [][response'.op \in {"status", "result"}
          => /\ jobs' = jobs
             /\ response'.code = 404 => QueryIds \ DOMAIN jobs # {}
             /\ (response'.op = "status" /\ response'.code = 200) =>
                  /\ response'.job_id \in DOMAIN jobs
                  /\ response'.status = jobs[response'.job_id].status
                  /\ response'.progress = jobs[response'.job_id].progress
                  /\ response'.logs = jobs[response'.job_id].logs
                  /\ response'.error = jobs[response'.job_id].error]_vars

\* An unknown identifier has been answered 404 while the table holds a
\* failed job.
C10_Witness ==
    /\ response.op = "status"
    /\ response.code = 404
    /\ \E j \in DOMAIN jobs : jobs[j].status = FAILED

\* A step of the routine of job a: its position or its locals change.
RoutineStep(a) ==
    /\ a \in DOMAIN proc'
    /\ a \notin DOMAIN proc \/ proc'[a] # proc[a]

IsClock(piece) ==
    /\ Len(piece) = 8
    /\ \A k \in {3, 6} : SubSeq(piece, k, k) = ":"
    /\ \A k \in {1, 2, 4, 5, 7, 8} : SubSeq(piece, k, k) \in CharsOf("0123456789")

\* The lines a step appends to the log of job j.
Appended(j) == SubSeq(jobs'[j].logs, Len(jobs[j].logs) + 1, Len(jobs'[j].logs))

\* C17 as stated: every change of a job's status appends a line that
\* carries a timestamp, and the log only grows.
C17_TimestampedTransitions ==
    [][\A j \in DOMAIN jobs :
         /\ SubSeq(jobs'[j].logs, 1, Len(jobs[j].logs)) = jobs[j].logs
         /\ jobs'[j].status # jobs[j].status =>
              \E n \in 1..Len(Appended(j)) :
                  \E k \in 1..Len(Appended(j)[n]) : IsClock(Appended(j)[n][k])]_vars

\* C17: every change of a job's status to disassembling, analyzing,
\* ai_refactoring, completed or failed appends at least one line to the
\* job's log in the same step; the log is append-only: every step keeps the
\* lines it holds, in their places.
C17_TransitionsLogged ==
    [][\A j \in DOMAIN jobs :
         /\ j \in DOMAIN jobs'
         /\ Len(jobs'[j].logs) >= Len(jobs[j].logs)
         /\ SubSeq(jobs'[j].logs, 1, Len(jobs[j].logs)) = jobs[j].logs
         /\ (/\ jobs'[j].status # jobs[j].status
             /\ jobs'[j].status \in {DISASSEMBLING, ANALYZING, AI_REFACTORING,
                                     COMPLETED, FAILED})
            => Appended(j) # <<>>]_vars

\* A job has gone through every transition up to completed, and another
\* one has failed.
C17_Witness ==
    \E j \in DOMAIN jobs, k \in DOMAIN jobs :
        /\ jobs[j].status = COMPLETED /\ Len(jobs[j].logs) >= 8
        /\ jobs[k].status = FAILED /\ Len(jobs[k].logs) >= 2
        /\ proc[k].pc = "exited"

\* The names of a mapping, in its order.
Names(functions) == [k \in 1..Len(functions) |-> functions[k][1]]

\* C20: when a routine has gone through its loop with the limit N >= 0,
\* the functions it has refined are the first N of the mapping's functions
\* put in the order "names that contain main, entry or start, then the
\* others" (each group in the mapping's order), refined in that order; and
\* when the mapping holds more than N functions a log line tells how many
\* were skipped.
C20_RefinesFirstN ==
    \A j \in DOMAIN proc :
        (/\ proc[j].pc = "exited"
         /\ proc[j].exception.at \notin {"decompile_binary", "int"}
         /\ environ.MAX_FUNCTIONS \in IntLiterals
         /\ IntOf(environ.MAX_FUNCTIONS) >= 0)
        => LET N == IntOf(environ.MAX_FUNCTIONS)
               ordered == SortedFuncs(proc[j].functions)
               first == SubSeq(ordered, 1, Min(N, Len(ordered)))
           IN  /\ Names(proc[j].refactored_functions) = Names(first)
               /\ Len(ordered) > N =>
                    \E n \in 1..Len(jobs[j].logs) :
                        jobs[j].logs[n] =
                            <<"[*] Processing ", ToString(N), " functions (skipping ",
                              ToString(Len(ordered) - N), " for speed)">>

\* decompile_binary has returned an empty mapping to the routine of job j:
\* the routine has logged that it found 0 functions.
FoundNone(j) ==
    \E n \in 1..Len(jobs[j].logs) : jobs[j].logs[n] = <<"[+] Found ", "0", " functions">>

\* C23: when the adapter has returned an empty mapping (and MAX_FUNCTIONS is
\* unset or an integer), the job is never failed, its error stays null, its
\* raw and refined maps stay empty, no refinement call is made for it, and
\* its routine ends with the job completed at progress 100.
C23_EmptyMappingCompletes ==
    \A j \in DOMAIN proc :
        (FoundNone(j) /\ environ.MAX_FUNCTIONS \in IntLiterals)
        => /\ jobs[j].status # FAILED
           /\ jobs[j].error = None
           /\ jobs[j].raw_functions = <<>>
           /\ jobs[j].refactored_functions = <<>>
           /\ proc[j].exception = NoException
           /\ proc[j].i = 0
           /\ \A n \in 1..Len(jobs[j].logs) :
                  Head(jobs[j].logs[n]) # "[*] Processing function: "
           /\ proc[j].pc = "exited" =>
                  /\ jobs[j].status = COMPLETED
                  /\ jobs[j].progress = 100

\* The routine of a job for which the adapter found nothing has ended, and
\* the job is completed with empty maps.
C23_Witness ==
    \E j \in DOMAIN proc :
        /\ FoundNone(j)
        /\ proc[j].pc = "exited"
        /\ jobs[j].status = COMPLETED
        /\ jobs[j].progress = 100
        /\ jobs[j].raw_functions = <<>>
        /\ jobs[j].refactored_functions = <<>>

\* C29: the error of a job is not null exactly when the job is failed.
C29_ErrorIffFailed ==
    \A j \in DOMAIN jobs : (jobs[j].error # None) <=> (jobs[j].status = FAILED)

\* One job has failed and carries the message of its exception, and
\* another is completed and has no error.
C29_Witness ==
    \E j \in DOMAIN jobs, k \in DOMAIN jobs :
        /\ jobs[j].status = FAILED
        /\ j \in DOMAIN proc
        /\ jobs[j].error = proc[j].exception.message
        /\ jobs[k].status = COMPLETED
        /\ jobs[k].error = None

CallEnded(fn) == call.fn = fn /\ call.state \in {"returned", "raised"}

\* C12: classification as a whole never rejects an always-retain function:
\* when decompile_binary runs Ghidra and a function whose name equals an
\* always-retain name up to case (main, WinMain, ...) is decompiled
\* successfully, the returned mapping holds that function, whatever its
\* decompiled body is.
C12_RetainedSurvivesBodyChecks ==
    (CallEnded("decompile_binary") /\ call.ghidra = "ok") =>
        \A k \in 1..Len(call.program) :
            (/\ lower(call.program[k].name) \in priority_names
             /\ IsDecompiled(call.decompiled[k]))
            => call.program[k].name \in Keys(call.functions)

\* C13: is_user_function returns True for every name that equals an
\* always-retain entry-point name up to case, whatever the external flag,
\* the thunk flag, the body (any size, 0, or none) and the
\* SKIP_FUN_FUNCTIONS and MIN_FUNCTION_SIZE settings are.
C13_EntryPointsRetained ==
    (CallEnded("is_user_function") /\ lower(call.func.name) \in priority_names)
    => (call.state = "returned" /\ call.result = TRUE)

\* An external thunk named WinMain with an empty body is retained although
\* every FUN_ function is skipped and MIN_FUNCTION_SIZE is not a number.
C13_Witness ==
    /\ call.fn = "is_user_function"
    /\ call.state = "returned"
    /\ call.func.name = "WinMain"
    /\ call.func.isExternal /\ call.func.isThunk
    /\ call.func.getBody = [exists |-> TRUE, numAddresses |-> 0]
    /\ environ.SKIP_FUN_FUNCTIONS = "TRUE"
    /\ environ.MIN_FUNCTION_SIZE = "abc"
    /\ call.result = TRUE

\* C22: an error of the disassembly engine fails the job: when Ghidra does
\* not start, or raises while the binary is loaded, analysed or decompiled,
\* decompile_binary hands process_binary no function set but the exception,
\* which is what makes process_binary leave the raw functions empty, fail
\* the job and log the exception's message.
C22_EngineErrorFailsJob ==
    (CallEnded("decompile_binary") /\ call.ghidra \in {"start_fails", "load_fails"})
    => call.state = "raised"

\* C27: is_user_function retains a function named _start, one of the names
\* the single-underscore rule spares, that is not external, not a thunk and
\* has a body of at least 10 addresses.
C27_StartRetained ==
    (/\ CallEnded("is_user_function")
     /\ call.func.name = "_start"
     /\ ~call.func.isExternal
     /\ ~call.func.isThunk
     /\ call.func.getBody.exists
     /\ call.func.getBody.numAddresses >= NAMED_MIN_SIZE)
    => /\ call.state = "returned"
       /\ call.result

\* C14: a function that is not on the always-retain list and whose body is
\* smaller than the absolute floor of 10 bytes is never retained: with
\* MIN_FUNCTION_SIZE any integer, also one below the floor,
\* is_user_function returns False for it, whatever its flags are and
\* whether or not its name is auto-generated (FUN_...).
C14_BelowFloorRejected ==
    (/\ CallEnded("is_user_function")
     /\ lower(call.func.name) \notin priority_names
     /\ call.func.getBody.exists
     /\ call.func.getBody.numAddresses < 10
     /\ environ.MIN_FUNCTION_SIZE \in IntLiterals)
    => (call.state = "returned" /\ call.result = FALSE)

\* A FUN_ function of 9 bytes is rejected although MIN_FUNCTION_SIZE is 5,
\* and so is a named function of 9 bytes.
C14_Witness ==
    /\ call.fn = "is_user_function"
    /\ call.state = "returned"
    /\ call.func.name \in {"FUN_00401000", "helper"}
    /\ ~call.func.isExternal /\ ~call.func.isThunk
    /\ call.func.getBody = [exists |-> TRUE, numAddresses |-> 9]
    /\ environ.SKIP_FUN_FUNCTIONS = ""
    /\ environ.MIN_FUNCTION_SIZE = "5"
    /\ call.result = FALSE

(***************************************************************************)
(* Properties of the refinement (RefineSpec).                              *)
(***************************************************************************)
\* C11: refactor_code returns a text and never raises, whatever the raw
\* code and whatever the backends do; when the local model cannot be
\* loaded, raises, or generates garbled text the raw code is carried
\* forward to the second stage, and when the chat client raises the text
\* of the first stage is returned.
C11_RefactorNeverRaises ==
    (call.fn = "refactor_code" /\ call.state # "called") =>
        /\ call.state = "returned"
        /\ call.result \in STRING
        /\ ( \/ call.llm = "not_loaded"
             \/ call.generation.kind = "raises"
             \/ /\ call.generation.kind = "text"
                /\ _is_garbled_output(call.generation.text) )
           => call.correct_c = call.raw_code
        /\ (call.client /\ call.completion.kind = "raises")
           => call.result = call.correct_c

\* C15: the text _detect_and_truncate_repetition returns is never longer
\* than the text it was given, and when it differs from it (the text was
\* truncated) it holds as many "{" as "}".
C15_TruncationShortensAndBalances ==
    CallEnded("_detect_and_truncate_repetition") =>
        /\ Len(call.result) <= Len(call.code)
        /\ call.result # call.code
           => count(call.result, "{") = count(call.result, "}")

\* text holds n identical lines in a row that are not blank
HasRun(text, n) ==
    LET Run(lines) ==
            \E k \in 1..(Len(lines) - n + 1) :
                /\ strip(lines[k]) # ""
                /\ \A j \in k..(k + n - 1) : lines[j] = lines[k]
    IN  Run(split(text, "\n"))

\* C18: the garble check comes before the truncation and the reformatting:
\* when the local model generates a text that holds the artifact !!! and 4
\* identical lines in a row, decompile_to_c rejects it and the first stage
\* of refactor_code yields the raw code, wherever the artifact stands.
C18_GarbleCheckFirst ==
    (/\ CallEnded("refactor_code")
     /\ call.llm = "loaded"
     /\ call.generation.kind = "text"
     /\ In("!!!", call.generation.text)
     /\ HasRun(call.generation.text, 4))
    => call.correct_c = call.raw_code

\* C26: for a text with any numbers of opening and closing braces, none
\* included, that gives the garble check no other reason to reject it,
\* _is_garbled_output is true exactly when the difference of the two numbers
\* is more than half the number of opening braces.
C26_BraceImbalance ==
    (call.fn = "_is_garbled_output" /\ call.state = "returned")
    => LET open == count(call.code, "{")
           close == count(call.code, "}")
           difference == IF open >= close THEN open - close ELSE close - open
       IN  call.result = (2 * difference > open)

\* C19: no text of a backend becomes the result of refactor_code without
\* passing the quality gate: a completion of the chat client that the
\* garble detection rejects is discarded and the text of the first stage
\* is returned instead.
C19_NoUngatedOutput ==
    (/\ CallEnded("refactor_code")
     /\ call.client
     /\ call.completion.kind = "text"
     /\ _is_garbled_output(call.completion.text))
    => call.result = call.correct_c

(***************************************************************************)
(* Properties of the availability of the backends (AvailabilitySpec).      *)
(***************************************************************************)
\* C21: every call of refactor_code chooses its backends by the
\* availability at the time of the call: the first pass goes to the local
\* backend exactly when the environment of the call makes it available, and
\* the cleanup pass to the chat client exactly when the environment of the
\* call configures it, whatever the environment was at earlier calls.
C21_AvailabilityPerCall ==
    (call.fn = "refactor_code" /\ call.state = "returned")
    => /\ (call.llm # "unavailable") = is_available(llm_service(call.environ))
       /\ call.client = (ai_service(call.environ).client # None)

(***************************************************************************)
(* Properties of the remote backends (RemoteSpec).                         *)
(***************************************************************************)
\* C24: a call of decompile_with_modal or decompile_with_vertex whose
\* request timed out, could not connect or was answered with a status
\* other than 200 has returned, not raised, and what it returned is its
\* input text.
C24_RemoteFailureReturnsInput ==
    (/\ call.fn \in {"decompile_with_modal", "decompile_with_vertex"}
     /\ call.state # "called"
     /\ \/ call.http.kind \in {"TimeoutException", "ConnectError"}
        \/ call.http.kind = "response" /\ call.http.status_code # 200)
    => /\ call.state = "returned"
       /\ call.result = call.ghidra_code

\* The request of decompile_with_modal timed out and the call has returned
\* code that is not empty.
C24_Witness ==
    /\ call.fn = "decompile_with_modal"
    /\ call.state = "returned"
    /\ call.http.kind = "TimeoutException"
    /\ call.ghidra_code # ""
    /\ call.result = call.ghidra_code

\* C25: the first pass of refactor_code is the local backend exactly when
\* is_available() reports it available, and otherwise the mock
\* transformer, whose text depends on the raw code alone; the cleanup pass
\* is the chat client exactly when the client is configured, and otherwise
\* no completion is asked for and the first-pass text is returned under the
\* mock header.
C25_BackendByAvailability ==
    CallEnded("refactor_code")
    => /\ call.state = "returned"
       /\ (call.llm # "unavailable") = is_available(modules.llm_service)
       /\ call.client = (modules.ai_service.client # None)
       /\ IF is_available(modules.llm_service)
          THEN call.correct_c =
                   decompile_to_c(call.raw_code, call.llm, call.generation).value
          ELSE /\ call.generation = NotCalled
               /\ call.correct_c = mock_decompile_to_c(call.raw_code)
       /\ IF modules.ai_service.client # None
          THEN call.result =
                   _improve_readability(call.function_name, call.correct_c,
                                        call.completion).value
          ELSE /\ call.completion = NotCalled
               /\ call.result =
                      _mock_readability(call.function_name, call.correct_c).value

\* The local backend reports available but no model could be loaded, so
\* the raw code with its Ghidra types is carried forward where the mock
\* transformer would have rewritten it, and no chat client is configured.
C25_Witness ==
    /\ CallEnded("refactor_code")
    /\ call.llm = "not_loaded"
    /\ ~call.client
    /\ call.correct_c = call.raw_code
    /\ mock_decompile_to_c(call.raw_code) # call.raw_code
    /\ In("Stage 2: Skipped", call.result)

(***************************************************************************)
(* Properties of the truncation (RefineSpec).                              *)
(***************************************************************************)
\* One of the first m lines is the first of 4 equal lines that have only
\* blank lines between them.
RunStartsIn(lines, m) ==
    \E k \in 1..m, e \in 1..Len(lines) :
        /\ k <= Len(lines)
        /\ strip(lines[k]) # ""
        /\ \A d \in k..e : strip(lines[d]) \in {"", strip(lines[k])}
        /\ Cardinality({d \in k..e : strip(lines[d]) = strip(lines[k])}) >= 4

====
